---- MODULE Spec2Model ----
(***************************************************************************)
(* Model of zanz1n/downloader: the proxy's credential service and get_file *)
(* route, the shared-secret signature, and the storage node's TCP          *)
(* endpoint.                                                               *)
(***************************************************************************)
EXTENDS Integers, Sequences, FiniteSets, TLC

VARIABLES now, minted, expiredSeen, last, nodeKey, proxyKey, conn, disk,
          uploads, cfg

\* the credential service and the get_file route
authVars == <<now, minted, expiredSeen, last>>

\* the storage node's TCP endpoint and the proxy's signing key
nodeVars == <<nodeKey, proxyKey, conn, disk, uploads, cfg>>

vars ==
    <<now, minted, expiredSeen, last, nodeKey, proxyKey, conn, disk, uploads, cfg>>

(***************************************************************************)
(* Bounds.  The clock counts ticks; a unix second is TicksPerSec ticks, so *)
(* time.Now() has sub-second precision while exp/iat are whole seconds.    *)
(***************************************************************************)
TicksPerSec == 2
MaxNow == 6
MaxTTL == 3

\* the longest stall between two clock readings of one decode: long enough
\* for a whole second to elapse between them
MaxDelay == TicksPerSec + 1

Unix(t) == t \div TicksPerSec
FromUnix(s) == s * TicksPerSec

(***************************************************************************)
(* Keys.  A key has a Go dynamic type and an identity.                     *)
(***************************************************************************)
JwtHmacKey == [type |-> "bytes", id |-> "hmac"]
JwtEdDSAPrivKey == [type |-> "edpriv", id |-> "ed"]
JwtEdDSAPubKey == [type |-> "edpub", id |-> "ed"]
NoKey == [type |-> "nil", id |-> ""]

\* keys an outsider holds: its own secrets, and the published public key's
\* bytes used as an HMAC secret
ForeignKeys ==
    { [type |-> "bytes", id |-> "evil"],
      [type |-> "edpriv", id |-> "evil"],
      [type |-> "bytes", id |-> "ed"] }

(***************************************************************************)
(* Claim payloads and their JSON form (struct tags of part_004).           *)
(***************************************************************************)
FileAccessPermRead == 1
FileAccessPermWrite == 2

UserIds == {"u1", "u2"}
Emails == {"a@x"}
UserRoles == {"ADMIN", "USER"}

\* spellings of file ids as they appear in URLs and token subjects
FileIdStrings == {"f1", "F1", "f2", "f3", "zz"}

JsonGet(obj, k, zero) == IF k \in DOMAIN obj THEN obj[k] ELSE zero

MarshalUser(p) ==
    [sub |-> p.UserID, email |-> p.Email, exp |-> p.ExpiryDate,
     iat |-> p.IssuedAt, role |-> p.Role]

UnmarshalUser(obj) ==
    [UserID |-> JsonGet(obj, "sub", ""),
     Email |-> JsonGet(obj, "email", ""),
     ExpiryDate |-> JsonGet(obj, "exp", 0),
     IssuedAt |-> JsonGet(obj, "iat", 0),
     Role |-> JsonGet(obj, "role", "")]

MarshalFileAccess(p) ==
    [sub |-> p.FileID, exp |-> p.ExpiryDate, iat |-> p.IssuedAt,
     perm |-> p.Permission]

\* mutant: the perm claim is read from the wrong JSON member
UnmarshalFileAccess_WrongTag(obj) ==
    [FileID |-> JsonGet(obj, "sub", ""),
     ExpiryDate |-> JsonGet(obj, "exp", 0),
     IssuedAt |-> JsonGet(obj, "iat", 0),
     Permission |-> JsonGet(obj, "permission", 0)]

UnmarshalFileAccess(obj) ==
    [FileID |-> JsonGet(obj, "sub", ""),
     ExpiryDate |-> JsonGet(obj, "exp", 0),
     IssuedAt |-> JsonGet(obj, "iat", 0),
     Permission |-> JsonGet(obj, "perm", 0)]

(***************************************************************************)
(* JWT signing and verification (golang-jwt/jwt v5 as called by auth.go).  *)
(* A signature binds the signing method, the key and the signed content.   *)
(***************************************************************************)
SigningMethodOf(alg) ==
    CASE alg = "HS256" -> "HMAC"
      [] alg = "EdDSA" -> "Ed25519"
      [] alg = "none" -> "none"
      [] OTHER -> "unavailable"

SignedContent(alg, claims) == [alg |-> alg, claims |-> claims]

\* SigningMethod.Sign: each method insists on its own key type
CanSign(method, key) ==
    \/ method = "HMAC" /\ key.type = "bytes"
    \/ method = "Ed25519" /\ key.type = "edpriv"

SignedString(alg, claims, key) ==
    [alg |-> alg, claims |-> claims,
     sig |-> [m |-> SigningMethodOf(alg), k |-> key.id,
              c |-> SignedContent(alg, claims)]]

\* SigningMethod.Verify: type-asserts the key, then checks the signature
\* over header and claims
Verify(method, key, tok) ==
    LET expect(m) == [m |-> m, k |-> key.id, c |-> SignedContent(tok.alg, tok.claims)]
    IN CASE method = "HMAC" -> key.type = "bytes" /\ tok.sig = expect("HMAC")
         [] method = "Ed25519" -> key.type = "edpub" /\ tok.sig = expect("Ed25519")
         [] OTHER -> FALSE

EncodeFileAccessToken(claims) ==
    SignedString("HS256", MarshalFileAccess(claims), JwtHmacKey)

EncodeUserToken(claims) ==
    SignedString("EdDSA", MarshalUser(claims), JwtEdDSAPrivKey)

\* time.Now() is read once; expiry is now+duration truncated to seconds
CreateFileAccessToken(fileId, permission, duration, t) ==
    EncodeFileAccessToken(
        [FileID |-> fileId, ExpiryDate |-> Unix(t + duration),
         IssuedAt |-> Unix(t), Permission |-> permission])

\* go-playground validator on a struct without `validate` tags: no rule
\* exists, so no error is ever reported
ValidateStruct(p) == TRUE

\* UserJwtPayload.Validate / FileAccessJwtPayload.Validate at clock reading t
PayloadValidate(p, t) ==
    IF ~ValidateStruct(p) THEN "ErrInvalidJwtToken"
    ELSE IF p.ExpiryDate < Unix(t) THEN "ErrExpiredJwtToken"
    ELSE "nil"

\* jwt.Validator.verifyExpiresAt on GetExpirationTime(): now.Before(exp)
VerifyExpiresAt(p, t) == t < FromUnix(p.ExpiryDate)

accessTokenKeyFunc(tok) ==
    IF SigningMethodOf(tok.alg) # "HMAC"
    THEN [err |-> TRUE, key |-> NoKey]
    ELSE [err |-> FALSE, key |-> JwtHmacKey]

\* mutant: the key is handed out whatever algorithm the token declares
userTokenKeyFunc_NoAlgCheck(tok) == [err |-> FALSE, key |-> JwtEdDSAPubKey]

userTokenKeyFunc(tok) ==
    IF SigningMethodOf(tok.alg) # "Ed25519"
    THEN [err |-> TRUE, key |-> NoKey]
    ELSE [err |-> FALSE, key |-> JwtEdDSAPubKey]

\* jwt.ParseWithClaims: look the method up, call the key function, verify
\* the signature, then validate the claims: the registered exp check (clock
\* reading t1) and the claims' own Validate() (clock reading t2).
\* kf is the key function's result for this token.
ParseWithClaims(tok, claims, kf, t1, t2) ==
    LET method == SigningMethodOf(tok.alg) IN
    IF method = "unavailable" THEN [err |-> TRUE, valid |-> FALSE, keyGiven |-> FALSE]
    ELSE IF kf.err THEN [err |-> TRUE, valid |-> FALSE, keyGiven |-> FALSE]
    ELSE IF ~Verify(method, kf.key, tok) THEN [err |-> TRUE, valid |-> FALSE, keyGiven |-> TRUE]
    ELSE IF ~VerifyExpiresAt(claims, t1) \/ PayloadValidate(claims, t2) # "nil"
         THEN [err |-> TRUE, valid |-> FALSE, keyGiven |-> TRUE]
    ELSE [err |-> FALSE, valid |-> TRUE, keyGiven |-> TRUE]

\* the nil *Payload returned next to an error
NilPayload == [nil |-> TRUE]

\* mutant: the parser's verdict is dropped, only the payload's own
\* Validate() decides
DecodeFileAccessToken_IgnoreParseErr(tok, t1, t2, t3) ==
    LET claims == UnmarshalFileAccess(tok.claims)
        verr == PayloadValidate(claims, t3)
    IN IF verr # "nil"
       THEN [err |-> verr, claims |-> NilPayload, keyGiven |-> TRUE]
       ELSE [err |-> "nil", claims |-> claims, keyGiven |-> TRUE]

\* Decode*: three clock readings t1 <= t2 <= t3
DecodeFileAccessToken(tok, t1, t2, t3) ==
    LET claims == UnmarshalFileAccess(tok.claims)
        parsed == ParseWithClaims(tok, claims, accessTokenKeyFunc(tok), t1, t2)
        verr == PayloadValidate(claims, t3)
    IN IF parsed.err \/ ~parsed.valid
       THEN [err |-> "ErrInvalidJwtToken", claims |-> NilPayload, keyGiven |-> parsed.keyGiven]
       ELSE IF verr # "nil"
       THEN [err |-> verr, claims |-> NilPayload, keyGiven |-> parsed.keyGiven]
       ELSE [err |-> "nil", claims |-> claims, keyGiven |-> parsed.keyGiven]

\* mutant: the parser's verdict is dropped, only the payload's own
\* Validate() decides
DecodeUserToken_IgnoreParseErr(tok, t1, t2, t3) ==
    LET claims == UnmarshalUser(tok.claims)
        verr == PayloadValidate(claims, t3)
    IN IF verr # "nil"
       THEN [err |-> verr, claims |-> NilPayload, keyGiven |-> TRUE]
       ELSE [err |-> "nil", claims |-> claims, keyGiven |-> TRUE]

DecodeUserToken(tok, t1, t2, t3) ==
    LET claims == UnmarshalUser(tok.claims)
        parsed == ParseWithClaims(tok, claims, userTokenKeyFunc(tok), t1, t2)
        verr == PayloadValidate(claims, t3)
    IN IF parsed.err \/ ~parsed.valid
       THEN [err |-> "ErrInvalidJwtToken", claims |-> NilPayload, keyGiven |-> parsed.keyGiven]
       ELSE IF verr # "nil"
       THEN [err |-> verr, claims |-> NilPayload, keyGiven |-> parsed.keyGiven]
       ELSE [err |-> "nil", claims |-> claims, keyGiven |-> parsed.keyGiven]

(***************************************************************************)
(* Tokens a caller can present, given the token the service last minted:   *)
(* the token itself, and what an outsider can derive from it without the   *)
(* service's keys.                                                         *)
(***************************************************************************)
NoToken == [alg |-> "absent"]

Resigned(g) ==
    { SignedString(a, g.claims, k) :
        <<a, k>> \in { ak \in {"HS256", "EdDSA"} \X ForeignKeys :
                         CanSign(SigningMethodOf(ak[1]), ak[2]) } }

Forgeries(g) ==
    Resigned(g)
    \cup { [alg |-> "none", claims |-> g.claims,
            sig |-> [m |-> "none", k |-> "", c |-> SignedContent("none", g.claims)]] }
    \cup { [g EXCEPT !.alg = IF g.alg = "HS256" THEN "EdDSA" ELSE "HS256"] }
    \cup { [g EXCEPT !.alg = "RS999"] }
    \cup { [g EXCEPT !.claims = [g.claims EXCEPT !["exp"] = @ + MaxTTL + 1]] }

\* one token is minted per behaviour, within the first second (every phase
\* of the clock within a second is covered)
Presentable ==
    IF minted.kind = "none" THEN {} ELSE {minted.tok} \cup Forgeries(minted.tok)

(***************************************************************************)
(* State machine of the credential service.                                *)
(***************************************************************************)
NoMint == [kind |-> "none"]
NoOp == [op |-> "none"]

InitAuth ==
    /\ now = 0
    /\ minted = NoMint
    /\ expiredSeen = FALSE
    /\ last = NoOp

\* the node before its configuration is loaded: no key, no connection, and
\* the files its data directory holds
NotLoaded == <<>>

NoConn ==
    [pc |-> "Down", from |-> "", iden |-> [nil |-> TRUE], keyRead |-> NotLoaded,
     reason |-> "", mode |-> "", pos |-> 0, out |-> <<>>, fileOps |-> <<>>,
     taken |-> 0, want |-> 0, partial |-> FALSE, prior |-> <<-1>>]

\* the bytes of an upload of n bytes, and the mark of a file for which no
\* client has sent a whole upload and closed
ByteSeq(n) == [i \in 1..n |-> i]
NoUpload == <<-1>>

\* the node's configuration guard: fileMu (the handlers holding it shared,
\* whether it is held exclusively); where each handler stands in GetKey,
\* whether its read overlaps a write, and what it got; where each rotation
\* stands in SetKey and the key it is storing; the key in the
\* configuration file and how the last dump ended; a handshake an
\* eavesdropper has captured, with the key it was signed under, and whether
\* a rotation away from that key has completed
Handlers == {"h1", "h2"}
Rotators == {"r1", "r2"}

NoCapture == [nil |-> TRUE]

NoRotation ==
    [readers |-> {}, writer |-> FALSE,
     hpc |-> [h \in Handlers |-> "idle"],
     raced |-> [h \in Handlers |-> FALSE],
     got |-> [h \in Handlers |-> NotLoaded],
     wpc |-> [r \in Rotators |-> "idle"],
     storing |-> [r \in Rotators |-> NotLoaded],
     wraced |-> [r \in Rotators |-> FALSE],
     file |-> NotLoaded, lastDump |-> "none",
     captured |-> NoCapture, capturedKey |-> NotLoaded, rotatedAway |-> FALSE]

InitNode ==
    /\ nodeKey = NotLoaded
    /\ proxyKey = NotLoaded
    /\ conn = NoConn
    /\ disk = [f \in {"f1", "f2"} |->
                 IF f = "f1" THEN [exists |-> TRUE, data |-> <<1, 2>>]
                 ELSE [exists |-> FALSE, data |-> <<>>]]
    /\ uploads = [f \in {"f1", "f2"} |->
                    IF f = "f1" THEN <<1, 2>> ELSE NoUpload]
    /\ cfg = NoRotation

Init == InitAuth /\ InitNode

\* the wall clock advances; last holds the operation that completed at the
\* current instant, if any
Tick ==
    /\ now < MaxNow
    /\ now' = now + 1
    /\ last' = NoOp
    /\ UNCHANGED <<minted, expiredSeen, nodeVars>>

\* CreateFileAccessToken(fileId, permission, duration) at time now
MintFileAccess ==
    \E id \in FileIdStrings \ {"zz"}, perm \in {FileAccessPermRead, FileAccessPermWrite},
       ttl \in 0..MaxTTL :
        /\ minted = NoMint
        /\ now < TicksPerSec
        /\ minted' = [kind |-> "file", deadline |-> now + ttl,
                      payload |-> [FileID |-> id, ExpiryDate |-> Unix(now + ttl),
                                   IssuedAt |-> Unix(now), Permission |-> perm],
                      tok |-> CreateFileAccessToken(id, perm, ttl, now)]
        /\ expiredSeen' = FALSE
        /\ last' = NoOp
        /\ UNCHANGED <<now, nodeVars>>

\* AuthUser's minting step (and the test's): EncodeUserToken of a payload
\* with iat = now, exp = now + UserTokenDuration
MintUser ==
    \E uid \in UserIds, email \in Emails, role \in UserRoles, ttl \in 0..MaxTTL :
        LET claims == [UserID |-> uid, Email |-> email,
                       ExpiryDate |-> Unix(now + ttl),
                       IssuedAt |-> Unix(now), Role |-> role] IN
        /\ minted = NoMint
        /\ now < TicksPerSec
        /\ minted' = [kind |-> "user", deadline |-> now + ttl,
                      payload |-> claims, tok |-> EncodeUserToken(claims)]
        /\ expiredSeen' = FALSE
        /\ last' = NoOp
        /\ UNCHANGED <<now, nodeVars>>

\* the clock readings of one decode begun at now
Stalls == {<<0, 0>>, <<0, 1>>, <<0, MaxDelay>>, <<MaxDelay, 0>>}

ClockReadings ==
    { <<now, now + d[1], now + d[1] + d[2]>> :
        d \in { e \in Stalls : now + e[1] + e[2] <= MaxNow } }

\* a genuine token refused by its own decoder can only have expired
FailedForExpiry(decoder, tok, res) ==
    /\ minted.kind = decoder
    /\ tok = minted.tok
    /\ res.err # "nil"

DecodeFile ==
    \E tok \in Presentable, r \in ClockReadings :
        LET res == DecodeFileAccessToken(tok, r[1], r[2], r[3]) IN
        /\ last' = [op |-> "decode", decoder |-> "file", tok |-> tok,
                    t1 |-> r[1], t2 |-> r[2], t3 |-> r[3], res |-> res]
        /\ now' = r[3]
        /\ expiredSeen' = (expiredSeen \/ FailedForExpiry("file", tok, res))
        /\ UNCHANGED <<minted, nodeVars>>

DecodeUser ==
    \E tok \in Presentable, r \in ClockReadings :
        LET res == DecodeUserToken(tok, r[1], r[2], r[3]) IN
        /\ last' = [op |-> "decode", decoder |-> "user", tok |-> tok,
                    t1 |-> r[1], t2 |-> r[2], t3 |-> r[3], res |-> res]
        /\ now' = r[3]
        /\ expiredSeen' = (expiredSeen \/ FailedForExpiry("user", tok, res))
        /\ UNCHANGED <<minted, nodeVars>>

NextAuth == Tick \/ MintFileAccess \/ MintUser \/ DecodeFile \/ DecodeUser

SpecAuth == Init /\ [][NextAuth]_vars

(***************************************************************************)
(* The proxy's get_file route.                                             *)
(***************************************************************************)
\* uuid.Parse accepts either letter case; a UUID is named by its canonical
\* (lower-case) string, which is what UUIDToString prints
UUIDSpellings == [f1 |-> "f1", F1 |-> "f1", f2 |-> "f2", f3 |-> "f3"]

UUIDToString(id) == id

UUIDFromString(s) ==
    IF s \in DOMAIN UUIDSpellings
    THEN [err |-> "nil", Valid |-> TRUE, Bytes |-> UUIDSpellings[s]]
    ELSE [err |-> "ErrInvalidUUID", Valid |-> FALSE, Bytes |-> ""]

\* rows GetFileAndNodeInfo can return: f1 lives on a node with a TCP port,
\* f2 on a node without one
Catalog ==
    [f1 |-> [ID |-> "f1", UserId |-> "u1", NodeTCPPortValid |-> TRUE],
     f2 |-> [ID |-> "f2", UserId |-> "u2", NodeTCPPortValid |-> FALSE]]

\* errors.GetStatusErr: the status registered for an error, 500 with code 0
\* for an error that is not in the table
GetStatusErr(err) ==
    CASE err = "ErrRouteRequiresAuth" -> [code |-> 4012, httpCode |-> 401]
      [] err = "ErrExpiredJwtToken" -> [code |-> 4013, httpCode |-> 401]
      [] err = "ErrInvalidJwtToken" -> [code |-> 4014, httpCode |-> 401]
      [] err = "ErrInvalidAuthHeader" -> [code |-> 4015, httpCode |-> 401]
      [] err = "ErrFileAccessDenied" -> [code |-> 4016, httpCode |-> 401]
      [] err = "ErrFileNotFound" -> [code |-> 4042, httpCode |-> 404]
      [] err = "ErrInvalidUUID" -> [code |-> 40011, httpCode |-> 400]
      [] err = "ErrFailedToFetchFileNode" -> [code |-> 5000, httpCode |-> 500]
      [] err = "ErrHashingFailed" -> [code |-> 5000, httpCode |-> 500]
      [] err = "ErrInvalidSignature" -> [code |-> 4017, httpCode |-> 401]
      [] err = "ErrRndQueryNotProvided" -> [code |-> 4006, httpCode |-> 400]
      [] OTHER -> [code |-> 0, httpCode |-> 500]

\* An Authorization header value is kept as the result of splitting it at
\* spaces: n parts, of which the first two are SigningType and Token.
NilAuthHeader == [nil |-> TRUE]

ExtractAuthorizationHeader(h) ==
    IF ~h.present THEN [err |-> "nil", hdr |-> NilAuthHeader]
    ELSE IF h.n # 2 THEN [err |-> "ErrInvalidAuthHeader", hdr |-> NilAuthHeader]
    ELSE [err |-> "nil",
          hdr |-> [SigningType |-> h.SigningType, Token |-> h.Token]]

NilFileAuthorization == [nil |-> TRUE]

\* mutant: a request without any credential is let through
ExtractFileAuthorization_AllowAnonymous(req, r) ==
    LET ah == ExtractAuthorizationHeader(req.authHeader) IN
    IF ah.err # "nil" THEN [err |-> ah.err, perm |-> NilFileAuthorization]
    ELSE IF ah.hdr = NilAuthHeader
    THEN IF req.accessToken = NoToken
         THEN [err |-> "nil",
               perm |-> [IsSignedToken |-> FALSE, IsUserToken |-> FALSE,
                         UserID |-> "", TokenPerm |-> 0]]
         ELSE LET d == DecodeFileAccessToken(req.accessToken, r[1], r[2], r[3]) IN
              IF d.err # "nil" THEN [err |-> d.err, perm |-> NilFileAuthorization]
              ELSE IF d.claims.FileID # req.fileId
              THEN [err |-> "ErrFileAccessDenied", perm |-> NilFileAuthorization]
              ELSE [err |-> "nil",
                    perm |-> [IsSignedToken |-> TRUE, IsUserToken |-> FALSE,
                              UserID |-> "", TokenPerm |-> d.claims.Permission]]
    ELSE IF ah.hdr.SigningType = "Bearer"
    THEN LET d == DecodeUserToken(ah.hdr.Token, r[1], r[2], r[3]) IN
         IF d.err # "nil" THEN [err |-> d.err, perm |-> NilFileAuthorization]
         ELSE [err |-> "nil",
               perm |-> [IsSignedToken |-> FALSE, IsUserToken |-> TRUE,
                         UserID |-> d.claims.UserID, TokenPerm |-> 0]]
    ELSE [err |-> "ErrInvalidAuthHeader", perm |-> NilFileAuthorization]

\* mutant: the token's subject is not compared with the requested id
ExtractFileAuthorization_NoScopeCheck(req, r) ==
    LET ah == ExtractAuthorizationHeader(req.authHeader) IN
    IF ah.err # "nil" THEN [err |-> ah.err, perm |-> NilFileAuthorization]
    ELSE IF ah.hdr = NilAuthHeader
    THEN IF req.accessToken = NoToken
         THEN [err |-> "ErrRouteRequiresAuth", perm |-> NilFileAuthorization]
         ELSE LET d == DecodeFileAccessToken(req.accessToken, r[1], r[2], r[3]) IN
              IF d.err # "nil" THEN [err |-> d.err, perm |-> NilFileAuthorization]
              ELSE [err |-> "nil",
                    perm |-> [IsSignedToken |-> TRUE, IsUserToken |-> FALSE,
                              UserID |-> "", TokenPerm |-> d.claims.Permission]]
    ELSE IF ah.hdr.SigningType = "Bearer"
    THEN LET d == DecodeUserToken(ah.hdr.Token, r[1], r[2], r[3]) IN
         IF d.err # "nil" THEN [err |-> d.err, perm |-> NilFileAuthorization]
         ELSE [err |-> "nil",
               perm |-> [IsSignedToken |-> FALSE, IsUserToken |-> TRUE,
                         UserID |-> d.claims.UserID, TokenPerm |-> 0]]
    ELSE [err |-> "ErrInvalidAuthHeader", perm |-> NilFileAuthorization]

\* r: the clock readings of the token decode
ExtractFileAuthorization(req, r) ==
    LET ah == ExtractAuthorizationHeader(req.authHeader) IN
    IF ah.err # "nil" THEN [err |-> ah.err, perm |-> NilFileAuthorization]
    ELSE IF ah.hdr = NilAuthHeader
    THEN IF req.accessToken = NoToken
         THEN [err |-> "ErrRouteRequiresAuth", perm |-> NilFileAuthorization]
         ELSE LET d == DecodeFileAccessToken(req.accessToken, r[1], r[2], r[3]) IN
              IF d.err # "nil" THEN [err |-> d.err, perm |-> NilFileAuthorization]
              ELSE IF d.claims.FileID # req.fileId
              THEN [err |-> "ErrFileAccessDenied", perm |-> NilFileAuthorization]
              ELSE [err |-> "nil",
                    perm |-> [IsSignedToken |-> TRUE, IsUserToken |-> FALSE,
                              UserID |-> "", TokenPerm |-> d.claims.Permission]]
    ELSE IF ah.hdr.SigningType = "Bearer"
    THEN LET d == DecodeUserToken(ah.hdr.Token, r[1], r[2], r[3]) IN
         IF d.err # "nil" THEN [err |-> d.err, perm |-> NilFileAuthorization]
         ELSE [err |-> "nil",
               perm |-> [IsSignedToken |-> FALSE, IsUserToken |-> TRUE,
                         UserID |-> d.claims.UserID, TokenPerm |-> 0]]
    ELSE [err |-> "ErrInvalidAuthHeader", perm |-> NilFileAuthorization]

\* what the one attempt on the node can come to
TCPOutcomes == {"ok", "dialFail", "writeFail"}
HTTPOutcomes == {"ok", "clientErr", "non200"}

\* mutant: a failed dial is followed by an attempt over HTTP
handleGetFileTCP_FallbackToHTTP(info, outcome) ==
    CASE outcome = "dialFail" ->
            [err |-> "nil", reader |-> "body",
             events |-> <<"dialTCP", "attemptFailed", "httpDo">>]
      [] outcome = "writeFail" ->
            [err |-> "ErrFailedToFetchFileNode", reader |-> "nil",
             events |-> <<"dialTCP", "writeHandshake", "attemptFailed">>]
      [] OTHER ->
            [err |-> "nil", reader |-> "conn",
             events |-> <<"dialTCP", "writeHandshake">>]

\* handleGetFileTCP: dial, write the handshake, hand the socket back
handleGetFileTCP(info, outcome) ==
    CASE outcome = "dialFail" ->
            [err |-> "ErrFailedToFetchFileNode", reader |-> "nil",
             events |-> <<"dialTCP", "attemptFailed">>]
      [] outcome = "writeFail" ->
            [err |-> "ErrFailedToFetchFileNode", reader |-> "nil",
             events |-> <<"dialTCP", "writeHandshake", "attemptFailed">>]
      [] OTHER ->
            [err |-> "nil", reader |-> "conn",
             events |-> <<"dialTCP", "writeHandshake">>]

\* handleGetFileHttp: one GET; a client error is returned as it is; on a
\* status other than 200 the err variable returned is the (nil) one left by
\* generateSignature
handleGetFileHttp(info, outcome) ==
    CASE outcome = "clientErr" ->
            [err |-> "clientError", reader |-> "nil",
             events |-> <<"httpDo", "attemptFailed">>]
      [] outcome = "non200" ->
            [err |-> "nil", reader |-> "nil", events |-> <<"httpDo", "non200">>]
      [] OTHER ->
            [err |-> "nil", reader |-> "body", events |-> <<"httpDo">>]

\* what happens on the node's side of the one attempt, and how each
\* transport shows it to the proxy: over TCP the node closes the socket
\* without a word after the proxy has written its handshake; over HTTP the
\* node answers 500 for a file it cannot open and an error status for a
\* signature it rejects
NodeSideOutcomes == {"served", "unreachable", "absent", "sigRejected"}

OutcomeOverTCP(o) == IF o = "unreachable" THEN "dialFail" ELSE "ok"

OutcomeOverHTTP(o) ==
    CASE o = "served" -> "ok"
      [] o = "unreachable" -> "clientErr"
      [] OTHER -> "non200"

\* what the caller of get_file is answered once the transport has returned
\* f: the error's status, or 200
CallerResult(f) ==
    IF f.err # "nil"
    THEN [ok |-> FALSE, httpCode |-> GetStatusErr(f.err).httpCode,
          code |-> GetStatusErr(f.err).code]
    ELSE [ok |-> TRUE, httpCode |-> 200, code |-> 0]

\* mutant: the TCP port is not looked at
SelectTransport_AlwaysHTTP(info) == "http"

\* the branch of HandleGetFile on info.NodeTCPPort.Valid
SelectTransport(info) == IF info.NodeTCPPortValid THEN "tcp" ELSE "http"

\* mutant: the owner comparison is left out
OwnerCheckFails_Skipped(perm, info) == FALSE

\* the owner check of HandleGetFile: only a user token is held to it
OwnerCheckFails(perm, info) ==
    perm.IsUserToken /\ perm.UserID # UUIDToString(info.UserId)

\* Server.HandleError
ErrorResponse(err, auth, events) ==
    [err |-> err, httpCode |-> GetStatusErr(err).httpCode,
     code |-> GetStatusErr(err).code, auth |-> auth, events |-> events,
     headers |-> FALSE, body |-> "json", file |-> ""]

\* Querier.GetFileAndNodeInfo: the query fails, finds no row, or finds
\* the file's row
GetFileAndNodeInfo(id, lookupOK) ==
    IF ~lookupOK THEN "queryError"
    ELSE IF id \notin DOMAIN Catalog THEN "ErrNoRows"
    ELSE "nil"

\* mutant: only a missing row is reported as a file that is not found
LookupError_ByCause(cause) ==
    IF cause = "ErrNoRows" THEN "ErrFileNotFound" ELSE cause

\* the error HandleGetFile reports when the lookup returns an error
LookupError(cause) == "ErrFileNotFound"

\* mutant: the id is parsed before the caller is authenticated
HandleGetFileResponse_ParseFirst(req, r, lookupOK, outcome) ==
    LET a == ExtractFileAuthorization(req, r)
        fileUUID == UUIDFromString(req.fileId)
    IN
    IF fileUUID.err # "nil"
    THEN ErrorResponse(fileUUID.err, NilFileAuthorization, <<"parseId">>)
    ELSE IF a.err # "nil" THEN ErrorResponse(a.err, a.perm, <<"parseId", "auth">>)
    ELSE IF GetFileAndNodeInfo(fileUUID.Bytes, lookupOK) # "nil"
    THEN ErrorResponse(LookupError(GetFileAndNodeInfo(fileUUID.Bytes, lookupOK)),
                       a.perm, <<"parseId", "auth", "lookup">>)
    ELSE
    LET info == Catalog[fileUUID.Bytes] IN
    IF OwnerCheckFails(a.perm, info)
    THEN ErrorResponse("ErrFileAccessDenied", a.perm,
                       <<"parseId", "auth", "lookup", "ownerCheck">>)
    ELSE
    LET f == IF SelectTransport(info) = "tcp"
             THEN handleGetFileTCP(info, outcome)
             ELSE handleGetFileHttp(info, outcome)
        ev == <<"parseId", "auth", "lookup", "ownerCheck">> \o f.events
    IN
    IF f.err # "nil" THEN ErrorResponse(f.err, a.perm, ev)
    ELSE [err |-> "nil", httpCode |-> 200, code |-> 0, auth |-> a.perm,
          events |-> ev \o <<"headers", "stream">>,
          headers |-> TRUE, body |-> f.reader, file |-> info.ID]

\* Server.HandleGetFile.  lookupOK: whether the catalog query succeeds;
\* outcome: how the node attempt ends.
HandleGetFileResponse(req, r, lookupOK, outcome) ==
    LET a == ExtractFileAuthorization(req, r)
        fileUUID == UUIDFromString(req.fileId)
    IN
    IF a.err # "nil" THEN ErrorResponse(a.err, a.perm, <<"auth">>)
    ELSE IF fileUUID.err # "nil"
    THEN ErrorResponse(fileUUID.err, a.perm, <<"auth", "parseId">>)
    ELSE IF GetFileAndNodeInfo(fileUUID.Bytes, lookupOK) # "nil"
    THEN ErrorResponse(LookupError(GetFileAndNodeInfo(fileUUID.Bytes, lookupOK)),
                       a.perm, <<"auth", "parseId", "lookup">>)
    ELSE
    LET info == Catalog[fileUUID.Bytes] IN
    IF OwnerCheckFails(a.perm, info)
    THEN ErrorResponse("ErrFileAccessDenied", a.perm,
                       <<"auth", "parseId", "lookup", "ownerCheck">>)
    ELSE
    LET f == IF SelectTransport(info) = "tcp"
             THEN handleGetFileTCP(info, outcome)
             ELSE handleGetFileHttp(info, outcome)
        ev == <<"auth", "parseId", "lookup", "ownerCheck">> \o f.events
    IN
    IF f.err # "nil" THEN ErrorResponse(f.err, a.perm, ev)
    ELSE [err |-> "nil", httpCode |-> 200, code |-> 0, auth |-> a.perm,
          events |-> ev \o <<"headers", "stream">>,
          headers |-> TRUE, body |-> f.reader, file |-> info.ID]

\* the requests a caller can send: the minted token or a copy of it signed
\* with an outsider's key, in the header, in the query, or in both
RequestTokens ==
    IF minted.kind = "none" THEN {}
    ELSE {minted.tok, [minted.tok EXCEPT !.sig.k = "evil"]}

Requests ==
    [fileId : FileIdStrings,
     authHeader :
        {[present |-> FALSE, n |-> 0, SigningType |-> "", Token |-> NoToken]}
        \cup { [present |-> TRUE, n |-> 2, SigningType |-> "Bearer", Token |-> t] :
                 t \in RequestTokens }
        \cup { [present |-> TRUE, n |-> k[1], SigningType |-> k[2],
                Token |-> minted.tok] :
                 k \in IF minted.kind = "none" THEN {}
                       ELSE {<<1, "Bearer">>, <<3, "Bearer">>, <<2, "Basic">>} },
     accessToken : {NoToken} \cup RequestTokens]

\* one request is observed per instant
HandleGetFile ==
    \E req \in Requests, r \in ClockReadings, lookupOK \in BOOLEAN,
       outcome \in TCPOutcomes \cup HTTPOutcomes :
        LET resp == HandleGetFileResponse(req, r, lookupOK, outcome) IN
        /\ last = NoOp
        /\ last' = [op |-> "get_file", req |-> req,
                    t1 |-> r[1], t2 |-> r[2], t3 |-> r[3], resp |-> resp,
                    lookup |-> IF \E i \in DOMAIN resp.events : resp.events[i] = "lookup"
                               THEN GetFileAndNodeInfo(
                                        UUIDFromString(req.fileId).Bytes, lookupOK)
                               ELSE "notReached"]
        /\ now' = r[3]
        /\ UNCHANGED <<minted, expiredSeen, nodeVars>>

NextProxy == Tick \/ MintFileAccess \/ MintUser \/ HandleGetFile

SpecProxy == Init /\ [][NextProxy]_vars

(***************************************************************************)
(* The shared-secret signature and the node's TCP endpoint.                *)
(* Strings that are hashed are sequences of characters, so that            *)
(* concatenation is the real one.                                          *)
(***************************************************************************)
MaxUpload == 2

SharedSecrets == {<<"b">>, <<"a", "b">>}
Randoms == {<<>>, <<"a">>, <<"c">>}

RequestTypeRead == 1
RequestTypeWrite == 2

\* lower-case hex of the SHA-256 digest of m; SHA-256 is taken to be
\* injective, so the digest is named by what was hashed
HexSha256(m) == <<"sha256">> \o m

\* mutant: the key is hashed before the nonce
generateSignature_KeyFirst(rnd, key) == HexSha256(key \o rnd)

\* the proxy's generateSignature, key being config.GetConfig().Key
generateSignature(rnd, key) == HexSha256(rnd \o key)

\* mutant: only the id is checked
validateIden_NoSignatureCheck(iden, key) ==
    IF iden.ID \notin DOMAIN UUIDSpellings THEN "ErrInvalidIdenPayload" ELSE "nil"

\* the node's validateIden, key being config.GetConfig().GetKey()
validateIden(iden, key) ==
    IF iden.ID \notin DOMAIN UUIDSpellings THEN "ErrInvalidIdenPayload"
    ELSE IF HexSha256(iden.Random \o key) # iden.Token THEN "ErrInvalidSignature"
    ELSE "nil"

\* IdenPayload values a peer can put on the wire
NodeIdStrings == {"f1", "f2", "zz", ""}

WireTokens ==
    { generateSignature(r, k) : r \in Randoms, k \in SharedSecrets }
    \cup { <<>>, <<"SHA256", "a", "b">> }

IdenPayloads ==
    [ID : NodeIdStrings, Random : Randoms, Token : WireTokens, Type : 0..3]

\* gob: a field holding its zero value is not transmitted, and a field
\* that is not received keeps its zero value
IdenZero == [ID |-> "", Random |-> <<>>, Token |-> <<>>, Type |-> 0]

\* pad: how many bytes follow the encoded value in the buffer
Encode(p) ==
    [kind |-> "gob",
     fields |-> [f \in {g \in DOMAIN IdenZero : p[g] # IdenZero[g]} |-> p[f]],
     pad |-> 0]

\* mutant: a field that was not received is left out of the result
DecodeIdenPayload_NoZeroFill(b) ==
    IF b.kind # "gob" THEN [err |-> "decode", iden |-> IdenZero]
    ELSE [err |-> "nil", iden |-> b.fields]

\* one gob value is decoded from the front of b; what follows it is not
\* read, and no field is checked against a set of allowed values
DecodeIdenPayload(b) ==
    IF b.kind # "gob" THEN [err |-> "decode", iden |-> IdenZero]
    ELSE [err |-> "nil",
          iden |-> [f \in DOMAIN IdenZero |->
                      IF f \in DOMAIN b.fields THEN b.fields[f] ELSE IdenZero[f]]]

\* bytes that are no gob stream, and a handshake cut short by the transport
Junk == [kind |-> "junk", fields |-> <<>>, pad |-> 0]
Truncated == [kind |-> "truncated", fields |-> <<>>, pad |-> 0]

\* the bytes b as they lie in Handle's 1024-byte buffer, n bytes of which
\* are not part of b
MaxPad == 1

Padded(b, n) == [b EXCEPT !.pad = n]

\* the codec applied to one payload, or the decoder to bytes that no
\* encoder produced
CodecRoundTrip ==
    \E p \in IdenPayloads, n \in 0..MaxPad :
        /\ last = NoOp
        /\ last' = [op |-> "codec", p |-> p, wire |-> Padded(Encode(p), n),
                    d |-> DecodeIdenPayload(Padded(Encode(p), n))]
        /\ UNCHANGED <<now, minted, expiredSeen, nodeVars>>

CodecDecodeRaw ==
    \E b \in {Junk, Truncated} :
        /\ last = NoOp
        /\ last' = [op |-> "codec", p |-> IdenZero, wire |-> b,
                    d |-> DecodeIdenPayload(b)]
        /\ UNCHANGED <<now, minted, expiredSeen, nodeVars>>

CodecDone ==
    /\ last.op = "codec"
    /\ last' = NoOp
    /\ UNCHANGED <<now, minted, expiredSeen, nodeVars>>

NextCodec == CodecRoundTrip \/ CodecDecodeRaw \/ CodecDone

SpecCodec == Init /\ [][NextCodec]_vars

\* the handshake handleGetFileTCP writes for file id with nonce rnd
ProxyHandshake(id, rnd) ==
    Encode([ID |-> UUIDToString(id), Random |-> rnd,
            Token |-> generateSignature(rnd, proxyKey),
            Type |-> RequestTypeRead])

\* the node and the proxy load their configuration
LoadConfig ==
    \E kn \in SharedSecrets, kp \in SharedSecrets :
        /\ conn.pc = "Down"
        /\ nodeKey' = kn
        /\ proxyKey' = kp
        /\ conn' = [conn EXCEPT !.pc = "Idle"]
        /\ UNCHANGED <<disk, uploads, cfg, authVars>>

\* acceptLoop: a connection is accepted and handed to a new Handle
Accept ==
    \E from \in {"proxy", "peer"} :
        /\ conn.pc \in {"Idle", "Closed"}
        /\ conn' = [NoConn EXCEPT !.pc = "Accepted", !.from = from]
        /\ UNCHANGED <<nodeKey, proxyKey, disk, uploads, cfg, authVars>>

\* Handle allocates its buffer and blocks in the one Read
\* (partial: whether that Read will return with only a strict prefix of
\* what the other side is writing)
AwaitHandshake ==
    /\ conn.pc = "Accepted"
    /\ \E partial \in BOOLEAN :
          conn' = [conn EXCEPT !.pc = "AwaitingHandshake", !.partial = partial]
    /\ UNCHANGED <<nodeKey, proxyKey, disk, uploads, cfg, authVars>>

\* the fields of an IdenPayload in the order gob writes them
WireOrder == <<"ID", "Random", "Token", "Type">>

\* mutant: Handle reads again until the whole handshake is in the buffer
FirstRead_UntilComplete(b, cut) == b

\* the 1024-byte zeroed buffer after one Read that returned b, or b up to
\* the cut: a stream cut in the type description does not decode; cut in
\* the value, the zero bytes that follow end the struct, and the fields
\* from the cut on are not received
FirstRead(b, cut) ==
    IF cut = "whole" \/ b.kind # "gob" THEN b
    ELSE IF cut = "head" THEN Truncated
    ELSE LET k == CHOOSE i \in DOMAIN WireOrder : WireOrder[i] = cut IN
         [b EXCEPT !.fields =
             [f \in {g \in DOMAIN b.fields :
                       \E i \in 1..(k - 1) : WireOrder[i] = g} |-> b.fields[f]]]

\* mutant: a rejection is answered with an error frame
Reject_WithErrorFrame(reason, iden, key) ==
    conn' = [conn EXCEPT !.pc = "Rejected", !.reason = reason, !.iden = iden,
                         !.keyRead = key, !.out = Append(@, reason)]

Reject(reason, iden, key) ==
    conn' = [conn EXCEPT !.pc = "Rejected", !.reason = reason, !.iden = iden,
                         !.keyRead = key]

\* Handle up to the dispatch: the read returns (with an error, or with
\* the first segment), the segment is decoded and validateIden is applied.
\* The read asks for up to 1024 bytes, so when a writer's upload follows
\* its handshake closely the read also takes the first n bytes of it.
ReadHandshake ==
    /\ conn.pc = "AwaitingHandshake"
    /\ \/ Reject("read", NoConn.iden, NotLoaded)
       \/ \E seg \in IF conn.from = "proxy"
                      THEN {Truncated}
                           \cup { ProxyHandshake(id, r) :
                                    id \in {"f1", "f2"}, r \in Randoms \ {<<>>} }
                      ELSE {Junk, Truncated} \cup { Encode(p) : p \in IdenPayloads },
             cut \in IF conn.partial
                     THEN {"head", "ID", "Random", "Token", "Type"}
                     ELSE {"whole"} :
             LET d == DecodeIdenPayload(Padded(FirstRead(seg, cut), 1)) IN
             IF d.err # "nil" THEN Reject("decode", NoConn.iden, NotLoaded)
             ELSE IF validateIden(d.iden, nodeKey) # "nil"
             THEN Reject(validateIden(d.iden, nodeKey), d.iden, nodeKey)
             ELSE \E n \in 0..MaxUpload :
                    conn' = [conn EXCEPT !.pc = "Authenticated", !.iden = d.iden,
                                         !.keyRead = nodeKey,
                                         !.taken = IF /\ conn.from = "peer"
                                                      /\ d.iden.Type = RequestTypeWrite
                                                   THEN n ELSE 0]
    /\ UNCHANGED <<nodeKey, proxyKey, disk, uploads, cfg, authVars>>

\* the deferred conn.Close() of a rejected connection
CloseRejected ==
    /\ conn.pc = "Rejected"
    /\ conn' = [conn EXCEPT !.pc = "Closed"]
    /\ UNCHANGED <<nodeKey, proxyKey, disk, uploads, cfg, authVars>>

\* the switch on iden.Type, with the os.Open of HandleRead or the
\* os.Create of HandleWrite; want is the length of the upload the writer
\* has set out to send
Dispatch ==
    /\ conn.pc = "Authenticated"
    /\ CASE conn.iden.Type = RequestTypeRead ->
              /\ IF conn.iden.ID \in DOMAIN disk /\ disk[conn.iden.ID].exists
                 THEN conn' = [conn EXCEPT !.pc = "Streaming", !.mode = "read",
                                           !.fileOps = Append(@, "open")]
                 ELSE conn' = [conn EXCEPT !.pc = "Closed"]
              /\ UNCHANGED <<disk, uploads>>
         [] conn.iden.Type = RequestTypeWrite ->
              \/ /\ conn.iden.ID \in DOMAIN disk
                 /\ \E w \in conn.taken..MaxUpload :
                       conn' = [conn EXCEPT !.pc = "Streaming", !.mode = "write",
                                            !.fileOps = Append(@, "create"),
                                            !.want = w, !.pos = conn.taken,
                                            !.prior =
                                                IF /\ disk[conn.iden.ID].exists
                                                   /\ uploads[conn.iden.ID]
                                                      = disk[conn.iden.ID].data
                                                THEN disk[conn.iden.ID].data
                                                ELSE NoUpload]
                 /\ disk' = [disk EXCEPT ![conn.iden.ID] =
                                 [exists |-> TRUE, data |-> <<>>]]
                 /\ uploads' = [uploads EXCEPT ![conn.iden.ID] = NoUpload]
              \/ /\ conn' = [conn EXCEPT !.pc = "Closed"]
                 /\ UNCHANGED <<disk, uploads>>
         [] OTHER ->
              /\ conn' = [conn EXCEPT !.pc = "Closed"]
              /\ UNCHANGED <<disk, uploads>>
    /\ UNCHANGED <<nodeKey, proxyKey, cfg, authVars>>

\* mutant: after the file has been sent the handler waits for another
\* handshake on the same connection
CopyOut_Pipelined ==
    /\ conn.pc = "Streaming" /\ conn.mode = "read"
    /\ LET data == disk[conn.iden.ID].data IN
       \/ /\ conn.pos < Len(data)
          /\ conn' = [conn EXCEPT !.pos = @ + 1,
                                  !.out = Append(@, data[conn.pos + 1])]
       \/ conn' = [conn EXCEPT !.pc = "AwaitingHandshake"]
    /\ UNCHANGED <<nodeKey, proxyKey, disk, uploads, cfg, authVars>>

\* io.Copy(conn, file) of HandleRead: the next byte goes out, or the copy
\* ends (end of file, or the socket fails) and the handler returns
CopyOut ==
    /\ conn.pc = "Streaming" /\ conn.mode = "read"
    /\ LET data == disk[conn.iden.ID].data IN
       \/ /\ conn.pos < Len(data)
          /\ conn' = [conn EXCEPT !.pos = @ + 1,
                                  !.out = Append(@, data[conn.pos + 1])]
       \/ conn' = [conn EXCEPT !.pc = "Closed"]
    /\ UNCHANGED <<nodeKey, proxyKey, disk, uploads, cfg, authVars>>

\* io.Copy(file, conn) of HandleWrite: the next byte of the upload is read
\* from the socket and appended to the file; or the read meets the end of
\* the stream (the peer has closed, after its last byte or before it),
\* io.Copy returns nil and the handler returns; or the copy fails and the
\* file is removed
CopyIn ==
    /\ conn.pc = "Streaming" /\ conn.mode = "write"
    /\ \/ /\ conn.pos < conn.want
          /\ conn' = [conn EXCEPT !.pos = @ + 1]
          /\ disk' = [disk EXCEPT ![conn.iden.ID].data =
                          Append(@, ByteSeq(conn.want)[conn.pos + 1])]
          /\ UNCHANGED uploads
       \/ /\ conn' = [conn EXCEPT !.pc = "Closed"]
          /\ uploads' = [uploads EXCEPT ![conn.iden.ID] =
                             IF conn.pos = conn.want
                             THEN ByteSeq(conn.want) ELSE NoUpload]
          /\ UNCHANGED disk
       \/ /\ conn' = [conn EXCEPT !.pc = "Closed",
                                  !.fileOps = Append(@, "remove")]
          /\ disk' = [disk EXCEPT ![conn.iden.ID] =
                          [exists |-> FALSE, data |-> <<>>]]
          /\ UNCHANGED uploads
    /\ UNCHANGED <<nodeKey, proxyKey, cfg, authVars>>

\* GetKey: fileMu.RLock()
GetKeyRLock(h) ==
    /\ nodeKey # NotLoaded
    /\ cfg.hpc[h] = "idle"
    /\ ~cfg.writer
    /\ cfg' = [cfg EXCEPT !.readers = @ \cup {h}, !.hpc[h] = "rlocked"]
    /\ UNCHANGED <<nodeKey, proxyKey, conn, disk, uploads, authVars>>

Writing == {r \in Rotators : cfg.wpc[r] = "writing"}

\* GetKey: the read of c.Key begins
GetKeyReadBegin(h) ==
    /\ cfg.hpc[h] = "rlocked"
    /\ cfg' = [cfg EXCEPT !.hpc[h] = "reading",
                          !.raced[h] = (Writing # {})]
    /\ UNCHANGED <<nodeKey, proxyKey, conn, disk, uploads, authVars>>

\* a string read that overlaps a write of it is a data race: the reader can
\* get the old value, the new one, or the pointer of one with the length
\* of the other
Torn == <<"torn">>

\* the values a racing access to Config.Key can come to
RacyValues ==
    {nodeKey, Torn}
    \cup {cfg.storing[r] : r \in {q \in Rotators : cfg.wpc[q] \in {"writing", "stored"}}}

\* mutant: the key of the handler's previous call is returned
GetKeyReadEnd_Stale(h) ==
    /\ cfg.hpc[h] = "reading"
    /\ cfg' = [cfg EXCEPT !.hpc[h] = "read", !.raced[h] = FALSE,
                          !.got[h] = IF cfg.captured = NoCapture THEN nodeKey
                                     ELSE cfg.capturedKey]
    /\ UNCHANGED <<nodeKey, proxyKey, conn, disk, uploads, authVars>>

\* GetKey: the read of c.Key ends
GetKeyReadEnd(h) ==
    /\ cfg.hpc[h] = "reading"
    /\ \E v \in IF cfg.raced[h] THEN RacyValues ELSE {nodeKey} :
          cfg' = [cfg EXCEPT !.hpc[h] = "read", !.raced[h] = FALSE,
                             !.got[h] = v]
    /\ UNCHANGED <<nodeKey, proxyKey, conn, disk, uploads, authVars>>

\* GetKey: the deferred fileMu.RUnlock(); the caller now holds the key
GetKeyRUnlock(h) ==
    /\ cfg.hpc[h] = "read"
    /\ cfg' = [cfg EXCEPT !.readers = @ \ {h}, !.hpc[h] = "holding"]
    /\ UNCHANGED <<nodeKey, proxyKey, conn, disk, uploads, authVars>>

\* what validateIden (or ExtractSignatureAuthorization) decides about the
\* captured handshake with the key it got
ReplayVerdict(key) ==
    IF validateIden(cfg.captured, key) = "nil" THEN "accept" ELSE "reject"

\* the handler compares, answers and returns
ValidateReplay(h) ==
    /\ cfg.hpc[h] = "holding"
    /\ cfg' = [cfg EXCEPT !.hpc[h] = "idle", !.got[h] = NotLoaded]
    /\ UNCHANGED <<nodeKey, proxyKey, conn, disk, uploads, authVars>>

\* an eavesdropper records a handshake that is valid under the node's key
Capture ==
    \E rnd \in {<<"a">>} :
        /\ nodeKey \in SharedSecrets
        /\ cfg.captured = NoCapture
        /\ \A r \in Rotators : cfg.wpc[r] = "idle"
        /\ cfg' = [cfg EXCEPT !.captured =
                                  [ID |-> "f1", Random |-> rnd,
                                   Token |-> generateSignature(rnd, nodeKey),
                                   Type |-> RequestTypeRead],
                              !.capturedKey = nodeKey]
        /\ UNCHANGED <<nodeKey, proxyKey, conn, disk, uploads, authVars>>

\* SetKey(v): the assignment c.Key = v begins; no lock is taken for it
SetKeyStoreBegin(r) ==
    \E v \in SharedSecrets :
        /\ nodeKey # NotLoaded
        /\ cfg.wpc[r] = "idle"
        /\ cfg' = [cfg EXCEPT !.wpc[r] = "writing", !.storing[r] = v,
                              !.raced = [h \in Handlers |->
                                           @[h] \/ cfg.hpc[h] = "reading"],
                              !.wraced = [q \in Rotators |->
                                            IF q = r THEN Writing # {}
                                            ELSE @[q] \/ q \in Writing]]
        /\ UNCHANGED <<nodeKey, proxyKey, conn, disk, uploads, authVars>>

\* SetKey: the assignment ends; two assignments that overlap race
SetKeyStoreEnd(r) ==
    /\ cfg.wpc[r] = "writing"
    /\ nodeKey' \in IF cfg.wraced[r] THEN {cfg.storing[r], Torn}
                     ELSE {cfg.storing[r]}
    /\ cfg' = [cfg EXCEPT !.wpc[r] = "stored"]
    /\ UNCHANGED <<proxyKey, conn, disk, uploads, authVars>>

\* dumpToFile: fileMu.Lock()
DumpLock(r) ==
    /\ cfg.wpc[r] = "stored"
    /\ cfg.readers = {}
    /\ ~cfg.writer
    /\ cfg' = [cfg EXCEPT !.writer = TRUE, !.wpc[r] = "dumping"]
    /\ UNCHANGED <<nodeKey, proxyKey, conn, disk, uploads, authVars>>

\* what the dump writes once the file is open: the marshalled
\* configuration as it is in memory
Marshalled(r) == IF Writing # {} THEN RacyValues ELSE {nodeKey}

\* mutant: the dump writes the key its own SetKey stored
Dumped_OwnValue(r, m) == cfg.storing[r]

Dumped(r, m) == m

\* dumpToFile: the file is opened with O_TRUNC, the configuration is
\* marshalled and written (or one of the steps fails), the deferred
\* fileMu.Unlock() runs and SetKey returns
DumpUnlock(r) ==
    /\ cfg.wpc[r] = "dumping"
    /\ \E m \in Marshalled(r), outcome \in {"ok", "openFailed", "writeFailed"} :
          cfg' = [cfg EXCEPT !.writer = FALSE, !.wpc[r] = "idle",
                             !.storing[r] = NotLoaded, !.wraced[r] = FALSE,
                             !.file = CASE outcome = "ok" -> Dumped(r, m)
                                        [] outcome = "openFailed" -> @
                                        [] OTHER -> NotLoaded,
                             !.lastDump = IF outcome = "ok" THEN "ok" ELSE "failed",
                             !.rotatedAway =
                                 @ \/ (/\ cfg.captured # NoCapture
                                       /\ cfg.storing[r] # cfg.capturedKey)]
    /\ UNCHANGED <<nodeKey, proxyKey, conn, disk, uploads, authVars>>

\* the node alone loads its configuration
LoadNodeConfig ==
    \E kn \in SharedSecrets :
        /\ nodeKey = NotLoaded
        /\ nodeKey' = kn
        /\ cfg' = [cfg EXCEPT !.file = kn]
        /\ UNCHANGED <<proxyKey, conn, disk, uploads, authVars>>

NextRotate ==
    \/ LoadNodeConfig
    \/ \E h \in Handlers : GetKeyRLock(h)
    \/ \E h \in Handlers : GetKeyReadBegin(h)
    \/ \E h \in Handlers : GetKeyReadEnd(h)
    \/ \E h \in Handlers : GetKeyRUnlock(h)
    \/ \E h \in Handlers : ValidateReplay(h)
    \/ Capture
    \/ \E r \in Rotators : SetKeyStoreBegin(r)
    \/ \E r \in Rotators : SetKeyStoreEnd(r)
    \/ \E r \in Rotators : DumpLock(r)
    \/ \E r \in Rotators : DumpUnlock(r)

SpecRotate == Init /\ [][NextRotate]_vars

NextNode ==
    \/ LoadConfig
    \/ Accept
    \/ AwaitHandshake
    \/ ReadHandshake
    \/ CloseRejected
    \/ Dispatch
    \/ CopyOut
    \/ CopyIn

SpecNode == Init /\ [][NextNode]_vars

\* the life of one connection, the first the node accepts
NextConn ==
    \/ LoadConfig
    \/ conn.pc = "Idle" /\ Accept
    \/ AwaitHandshake
    \/ ReadHandshake
    \/ CloseRejected
    \/ Dispatch
    \/ CopyOut
    \/ CopyIn

\* the handler goroutine always gets to run its next step, a peer that has
\* connected sends something or goes away, and an uploading peer closes or
\* fails in the end
SpecConnLive ==
    /\ Init
    /\ [][NextConn]_vars
    /\ WF_vars(AwaitHandshake)
    /\ WF_vars(ReadHandshake)
    /\ WF_vars(CloseRejected)
    /\ WF_vars(Dispatch)
    /\ WF_vars(CopyOut)
    /\ WF_vars(CopyIn)

(***************************************************************************)
(* Properties of the credential service (SpecAuth).                        *)
(***************************************************************************)
\* the last operation decoded the service's own token with the decoder d
GenuineDecode(d) ==
    /\ last.op = "decode"
    /\ last.decoder = d
    /\ minted.kind # "none"
    /\ last.tok = minted.tok

OwnDecode == \E d \in {"file", "user"} : GenuineDecode(d) /\ minted.kind = d

CrossDecode == \E d \in {"file", "user"} : GenuineDecode(d) /\ minted.kind # d

\* the whole-second expiry instant of the minted token, in ticks
ExpiryInstant == FromUnix(minted.payload.ExpiryDate)

DecoderFamily(d) == IF d = "file" THEN "HMAC" ELSE "Ed25519"

\* C4: a token minted by EncodeFileAccessToken is rejected by
\* DecodeUserToken and a token minted by EncodeUserToken is rejected by
\* DecodeFileAccessToken, and a decoder's key function hands its key to the
\* verifier only for a token whose declared algorithm is of its own family.
C4_TokenIsolation ==
    last.op = "decode" =>
        /\ CrossDecode => last.res.err = "ErrInvalidJwtToken"
        /\ last.res.keyGiven =>
               SigningMethodOf(last.tok.alg) = DecoderFamily(last.decoder)

\* an unexpired minted token was presented to the other kind's decoder
C4_Witness ==
    /\ CrossDecode
    /\ last.t3 < ExpiryInstant
    /\ last.res.err = "ErrInvalidJwtToken"

\* C5 as stated: a token minted at t0 with lifetime ttl decodes
\* successfully at every time before t0+ttl.
C5_Original ==
    (OwnDecode /\ last.t3 < minted.deadline) => last.res.err = "nil"

\* C5 amended: a minted token decodes successfully whenever the decode
\* ends before the whole-second expiry instant floor(t0+ttl), every decode
\* begun at or after that instant (so every decode after t0+ttl) fails, and
\* once a decode of the token has failed no later decode of it succeeds.
C5_TokenLifecycle ==
    OwnDecode =>
        /\ last.t3 < ExpiryInstant => last.res.err = "nil"
        /\ last.t1 >= ExpiryInstant => last.res.err # "nil"
        /\ last.t1 > minted.deadline => last.res.err # "nil"
        /\ last.res.err = "nil" => ~expiredSeen

\* a decode begun before t0+ttl failed because the expiry instant, being
\* truncated to a whole second, had already passed
C5_Witness ==
    /\ OwnDecode
    /\ last.t1 >= ExpiryInstant
    /\ last.t3 < minted.deadline
    /\ last.res.err # "nil"
    /\ expiredSeen

\* C6: a correctly signed token is rejected for expiry exactly when
\* exp < now in unix seconds (exp == now is accepted), and the error is
\* then ErrExpiredJwtToken.
C6_ExpiryError ==
    (OwnDecode /\ last.t1 = last.t3) =>
        /\ last.res.err # "nil" <=> minted.payload.ExpiryDate < Unix(last.t1)
        /\ last.res.err # "nil" => last.res.err = "ErrExpiredJwtToken"

\* C8: decoding a minted, unexpired token with its own decoder succeeds
\* and returns the payload that was encoded, field by field.
C8_RoundTrip ==
    (OwnDecode /\ last.t3 < ExpiryInstant) =>
        /\ last.res.err = "nil"
        /\ last.res.claims = minted.payload

\* both a user token and a file-access token have made the round trip
C8_Witness ==
    /\ OwnDecode
    /\ minted.kind = "file"
    /\ last.res.err = "nil"
    /\ last.res.claims.FileID = "f2"
    /\ last.res.claims.Permission = FileAccessPermWrite

(***************************************************************************)
(* Properties of the get_file route (SpecProxy).                           *)
(***************************************************************************)
IsGetFile == last.op = "get_file"

Has(events, e) == \E i \in DOMAIN events : events[i] = e

LookedUp == Has(last.resp.events, "lookup")

NodeContacted ==
    \E e \in {"dialTCP", "writeHandshake", "httpDo"} : Has(last.resp.events, e)

Authenticated == last.resp.auth # NilFileAuthorization

\* the owner of the file the request names (the id parsed as a UUID)
RequestedOwner == Catalog[UUIDSpellings[last.req.fileId]].UserId

\* C1: a get_file request with neither an Authorization header nor an
\* access_token is answered ErrRouteRequiresAuth (401) without a catalog
\* lookup or a node contact; an authenticated request is authenticated by
\* exactly one credential kind: the user token if the header is present,
\* the file-access token otherwise.
C1_CredentialRequired ==
    IsGetFile =>
        /\ (~last.req.authHeader.present /\ last.req.accessToken = NoToken) =>
               /\ last.resp.err = "ErrRouteRequiresAuth"
               /\ last.resp.httpCode = 401
               /\ ~LookedUp /\ ~NodeContacted /\ ~Authenticated
        /\ Authenticated =>
               /\ last.resp.auth.IsUserToken # last.resp.auth.IsSignedToken
               /\ last.resp.auth.IsUserToken <=> last.req.authHeader.present

\* a request without credentials for an existing file was turned away
C1_Witness ==
    /\ IsGetFile
    /\ ~last.req.authHeader.present /\ last.req.accessToken = NoToken
    /\ last.req.fileId = "f1"
    /\ last.resp.err = "ErrRouteRequiresAuth"

\* C2: with a user token the node is contacted and the file streamed only
\* if the token's user id is the owner id of the catalog record; otherwise
\* the answer is ErrFileAccessDenied and no node is contacted.  A request
\* authenticated by a file-access token is not held to the owner check.
C2_OwnerCheck ==
    (IsGetFile /\ Authenticated /\ Has(last.resp.events, "ownerCheck")) =>
        /\ last.resp.auth.IsUserToken =>
               IF last.resp.auth.UserID = RequestedOwner
               THEN NodeContacted /\ last.resp.err # "ErrFileAccessDenied"
               ELSE /\ last.resp.err = "ErrFileAccessDenied"
                    /\ ~NodeContacted
                    /\ ~last.resp.headers
        /\ last.resp.auth.IsSignedToken =>
               NodeContacted /\ last.resp.err # "ErrFileAccessDenied"

\* a valid user token of somebody who does not own the file was refused
C2_Witness ==
    /\ IsGetFile /\ Authenticated
    /\ last.resp.auth.IsUserToken
    /\ last.resp.auth.UserID = "u2"
    /\ last.req.fileId = "f1"
    /\ last.resp.err = "ErrFileAccessDenied"

\* the request carries the minted file-access token, still valid through
\* the whole decode, in the query and no Authorization header
PresentsFileToken ==
    /\ IsGetFile
    /\ minted.kind = "file"
    /\ ~last.req.authHeader.present
    /\ last.req.accessToken = minted.tok
    /\ last.t3 < ExpiryInstant

\* C3: a valid file-access token minted for A and presented for another id
\* is answered ErrFileAccessDenied, before any lookup, and nothing is
\* streamed; presented for A it authenticates the request; whatever is
\* streamed under a file-access token is the file the token names.
C3_TokenScope ==
    /\ PresentsFileToken =>
           IF minted.payload.FileID # last.req.fileId
           THEN /\ last.resp.err = "ErrFileAccessDenied"
                /\ ~LookedUp /\ ~NodeContacted /\ ~last.resp.headers
           ELSE /\ Authenticated
                /\ last.resp.auth.IsSignedToken
                /\ last.resp.auth.TokenPerm = minted.payload.Permission
    /\ (IsGetFile /\ Authenticated /\ last.resp.err = "nil") =>
           (last.resp.auth.IsSignedToken =>
               last.resp.file = UUIDSpellings[last.req.accessToken.claims.sub])

\* a valid token for f1 was presented for f2
C3_Witness ==
    /\ PresentsFileToken
    /\ minted.payload.FileID = "f1"
    /\ last.req.fileId = "f2"
    /\ last.resp.err = "ErrFileAccessDenied"

\* C7: a request whose Authorization header carries the minted user token
\* after its expiry, without access_token, is answered with a 401 token
\* error, never ErrFileAccessDenied, and without a catalog lookup.
C7_ExpiredIsUnauthorized ==
    ( /\ IsGetFile
      /\ minted.kind = "user"
      /\ last.req.authHeader.present
      /\ last.req.authHeader.Token = minted.tok
      /\ last.req.accessToken = NoToken
      /\ last.t1 >= ExpiryInstant ) =>
        /\ last.resp.httpCode = 401
        /\ last.resp.err \in {"ErrExpiredJwtToken", "ErrInvalidJwtToken",
                               "ErrInvalidAuthHeader"}
        /\ ~LookedUp /\ ~NodeContacted

\* an expired token of u2 was presented as Bearer for u1's file
C7_Witness ==
    /\ IsGetFile
    /\ minted.kind = "user"
    /\ minted.payload.UserID = "u2"
    /\ last.req.authHeader = [present |-> TRUE, n |-> 2,
                              SigningType |-> "Bearer", Token |-> minted.tok]
    /\ last.req.accessToken = NoToken
    /\ last.req.fileId = "f1"
    /\ last.t1 >= ExpiryInstant
    /\ last.resp.httpCode = 401

(***************************************************************************)
(* Properties of the node's TCP endpoint (SpecNode).                       *)
(***************************************************************************)
\* validateIden has been applied to the connection's handshake
Validated == conn.iden # NoConn.iden

Accepted == Validated /\ conn.reason = ""

\* the handshake's id parses as a UUID and its token is the hex SHA-256 of
\* its random followed by the key the node read
Recomputed ==
    /\ conn.iden.ID \in DOMAIN UUIDSpellings
    /\ conn.iden.Token = HexSha256(conn.iden.Random \o conn.keyRead)

\* C9: signature agreement. validateIden accepts a handshake under the
\* node's key k exactly when its id parses as a UUID and its token is
\* hex(sha256(random || k)); a handshake minted by the proxy with key k
\* is accepted by a node whose key is k; a handshake signed over its own
\* random with another key, or signed with the node's key over another
\* random, is rejected.
C9_SignatureAgreement ==
    Validated =>
        /\ Accepted <=> Recomputed
        /\ (conn.from = "proxy" /\ ~conn.partial /\ proxyKey = conn.keyRead)
           => Accepted
        /\ \A k \in SharedSecrets :
              (k # conn.keyRead
               /\ conn.iden.Token = HexSha256(conn.iden.Random \o k))
              => ~Accepted
        /\ \A r \in Randoms :
              (r # conn.iden.Random
               /\ conn.iden.Token = HexSha256(r \o conn.keyRead))
              => ~Accepted

C9_Witness ==
    /\ conn.pc = "Authenticated"
    /\ conn.from = "proxy"
    /\ proxyKey = nodeKey
    /\ Accepted

\* the single read returned data, the data decoded, and the decoded
\* handshake passed the UUID check and the signature check
HandshakeSucceeded ==
    /\ conn.reason = ""
    /\ Validated
    /\ Recomputed

\* C10: on a node TCP connection no file is opened, created, truncated or
\* removed and no byte is written to the socket unless the handshake read,
\* the decode and validateIden have all succeeded first; the connection
\* reaches Streaming only through Authenticated.
C10_ValidateBeforeIO ==
    /\ []((conn.fileOps # <<>> \/ conn.out # <<>> \/ conn.pc = "Streaming")
           => HandshakeSucceeded)
    /\ [][(\/ disk' # disk
            \/ Len(conn'.fileOps) > Len(conn.fileOps)
            \/ Len(conn'.out) > Len(conn.out))
           => (conn.pc \in {"Authenticated", "Streaming"} /\ HandshakeSucceeded)]_vars
    /\ [][(conn'.pc = "Streaming" /\ conn.pc # "Streaming")
           => conn.pc = "Authenticated"]_vars

C10_Witness ==
    /\ conn.pc = "Streaming"
    /\ conn.from = "peer"
    /\ conn.out # <<>>


\* why Handle gave the connection up before serving it, "none" if it did not
RejectionCause ==
    IF conn.reason # "" THEN conn.reason
    ELSE IF /\ conn.pc = "Closed"
            /\ Validated
            /\ conn.iden.Type \notin {RequestTypeRead, RequestTypeWrite}
    THEN "unknownType"
    ELSE "none"

RejectionCauses ==
    {"read", "decode", "ErrInvalidIdenPayload", "ErrInvalidSignature", "unknownType"}

\* what the peer can see of the connection: whether it was closed, and the
\* bytes it was sent
PeerObservation == [closed |-> conn.pc = "Closed", bytes |-> conn.out]

\* C11: every rejection on the node TCP path (read error, decode failure,
\* non-UUID id, signature mismatch, unknown request type) ends with the
\* connection closed and no byte ever written to the peer, so the peer
\* observes the same thing for every cause, and for an invalid signature
\* whether or not the file exists on disk.
C11_SilentRejection ==
    /\ [](RejectionCause # "none"
           => /\ RejectionCause \in RejectionCauses
              /\ conn.out = <<>>
              /\ conn.fileOps = <<>>
              /\ conn.pc \in {"Rejected", "Closed"}
              /\ conn.pc = "Closed"
                    => PeerObservation = [closed |-> TRUE, bytes |-> <<>>])
    /\ [][conn.pc = "Rejected"
           => (conn'.pc = "Closed" /\ conn'.out = <<>> /\ disk' = disk)]_vars

C11_Witness ==
    /\ conn.pc = "Closed"
    /\ RejectionCause = "ErrInvalidSignature"
    /\ conn.iden.ID = "f1"
    /\ disk["f1"].exists

(***************************************************************************)
(* Properties of the wire codec (SpecCodec).                               *)
(***************************************************************************)
\* C12: wire codec round trip. For every IdenPayload p whose type is Read
\* or Write, empty strings included, DecodeIdenPayload(Encode(p)) succeeds
\* and yields p field by field, also when the encoded bytes are followed
\* by padding in the read buffer.
C12_CodecRoundTrip ==
    (/\ last.op = "codec"
     /\ last.wire.kind = "gob"
     /\ last.p.Type \in {RequestTypeRead, RequestTypeWrite})
    => /\ last.d.err = "nil"
       /\ last.d.iden = last.p
       /\ \A f \in DOMAIN IdenZero : last.d.iden[f] = last.p[f]

C12_Witness ==
    /\ last.op = "codec"
    /\ last.wire.kind = "gob"
    /\ last.wire.pad > 0
    /\ last.p.Type = RequestTypeWrite
    /\ last.p.ID = ""
    /\ last.p.Random = <<>>
    /\ last.d.err = "nil"

\* C13: DecodeIdenPayload returns a decode error for every input whose
\* type field is outside {1, 2}, an absent type included, and for
\* truncated input; it never returns a payload whose type is neither Read
\* nor Write.  (Violated: gob checks no field value.)
C13_TypeChecked ==
    last.op = "codec"
    => /\ (last.wire.kind = "gob"
           /\ last.p.Type \notin {RequestTypeRead, RequestTypeWrite})
          => last.d.err # "nil"
       /\ last.wire.kind = "truncated" => last.d.err # "nil"
       /\ last.d.err = "nil"
          => last.d.iden.Type \in {RequestTypeRead, RequestTypeWrite}

(***************************************************************************)
(* Properties of the proxy's choice and use of a transport (SpecProxy).    *)
(***************************************************************************)
\* the catalog record of the file the request names
RequestedInfo == Catalog[UUIDSpellings[last.req.fileId]]

\* C14: transport selection in get_file is a function of the catalog
\* record only: the TCP path is used iff the node record has a TCP port,
\* otherwise the HTTP path; a node without a TCP port is never dialled
\* over TCP.
C14_TransportSelection ==
    (IsGetFile /\ NodeContacted)
    => /\ Has(last.resp.events, "dialTCP") <=> RequestedInfo.NodeTCPPortValid
       /\ Has(last.resp.events, "httpDo") <=> ~RequestedInfo.NodeTCPPortValid

C14_Witness ==
    /\ IsGetFile
    /\ Has(last.resp.events, "httpDo")
    /\ ~RequestedInfo.NodeTCPPortValid

\* the outbound attempts of the request, in order
Attempts ==
    SelectSeq(last.resp.events, LAMBDA e : e \in {"dialTCP", "httpDo"})

\* C15: a get_file request makes at most one outbound attempt to a storage
\* node, on the transport chosen; when the attempt fails (dial failure,
\* handshake write failure, HTTP client error) the request ends with an
\* error to the caller, with no retry and no attempt on the other
\* transport.
C15_SingleAttempt ==
    IsGetFile
    => /\ Len(Attempts) <= 1
       /\ Has(last.resp.events, "attemptFailed")
          => /\ last.resp.err # "nil"
             /\ last.resp.httpCode >= 400
             /\ ~last.resp.headers
             /\ last.resp.body = "json"
             /\ Len(Attempts) = 1
             /\ last.resp.events[Len(last.resp.events)] = "attemptFailed"

C15_Witness ==
    /\ IsGetFile
    /\ Has(last.resp.events, "attemptFailed")
    /\ Has(last.resp.events, "dialTCP")
    /\ ~Has(last.resp.events, "writeHandshake")

\* C16: on the HTTP path, when the node answers with a status other than
\* 200, handleGetFileHttp returns a non-nil error and get_file answers with
\* an internal error, never with a success response carrying the file's
\* headers.  (Violated: the error returned is the nil left by
\* generateSignature.)
C16_Non200IsError ==
    (IsGetFile /\ Has(last.resp.events, "non200"))
    => /\ last.resp.err # "nil"
       /\ last.resp.httpCode = 500
       /\ ~last.resp.headers

\* C17: dual-transport equivalence. For the same caller, catalog record
\* and node-side outcome (served, unreachable, file absent, signature
\* rejected) get_file gives the caller the same result (success or error,
\* HTTP status, error code) on the TCP path as on the HTTP path.
\* (Violated: an unreachable node is ErrFailedToFetchFileNode over TCP and
\* the HTTP client's own, unregistered, error over HTTP.)
C17_DualTransportEquivalence ==
    (IsGetFile /\ NodeContacted)
    => \A o \in NodeSideOutcomes :
          CallerResult(handleGetFileTCP(RequestedInfo, OutcomeOverTCP(o)))
          = CallerResult(handleGetFileHttp(RequestedInfo, OutcomeOverHTTP(o)))

(***************************************************************************)
(* Properties of uploads to the node (SpecNode).                           *)
(***************************************************************************)
\* C18: all-or-nothing TCP writes. Whenever an authenticated Write for id X
\* does not receive the complete upload (the copy ends with an I/O error,
\* or the peer's connection is closed mid-transfer), no file exists at X
\* after the handler returns.  (Violated: a peer that closes early ends the
\* copy with a nil error and the partial file stays.)
C18_AllOrNothing ==
    (/\ conn.pc = "Closed"
     /\ conn.mode = "write"
     /\ conn.pos < conn.want)
    => ~disk[conn.iden.ID].exists

\* C19: write-then-read fidelity. After a client has sent a valid Write
\* handshake for X followed by the bytes B and closed, a later Read of X
\* that runs to the end of the file returns exactly B, however the
\* client's bytes were split into reads on the node.  (Violated: upload
\* bytes that arrive in the handshake read are dropped.)
C19_WriteThenRead ==
    (/\ conn.pc = "Closed"
     /\ conn.mode = "read"
     /\ uploads[conn.iden.ID] # NoUpload
     /\ conn.pos = Len(disk[conn.iden.ID].data))
    => conn.out = uploads[conn.iden.ID]

(***************************************************************************)
(* Properties of the node's key under rotation (SpecRotate).               *)
(***************************************************************************)
\* C20: shared-secret locking on the node. Every read of the key (GetKey)
\* happens while holding the shared lock and every write of the key
\* (SetKey) while holding the exclusive lock, so in no interleaving does a
\* read of Config.Key overlap a write of it.  (Violated: SetKey assigns
\* c.Key before any lock is taken.)
C20_KeyLocking ==
    /\ \A h \in Handlers : cfg.hpc[h] = "reading" => h \in cfg.readers
    /\ \A r \in Rotators : cfg.wpc[r] = "writing" => cfg.writer
    /\ ~(\E h \in Handlers, r \in Rotators :
            cfg.hpc[h] = "reading" /\ cfg.wpc[r] = "writing")

\* no SetKey call is in progress
Quiescent == \A r \in Rotators : cfg.wpc[r] = "idle"

\* C21: rotation is persisted synchronously. SetKey returns only out of
\* the dump it made while holding the exclusive lock, and when the last
\* dump's file I/O succeeded and no SetKey call is in progress the key in
\* the configuration file equals the key held in memory.
C21_RotationPersisted ==
    /\ []((Quiescent /\ cfg.lastDump = "ok") => cfg.file = nodeKey)
    /\ [][\A r \in Rotators :
             (cfg.wpc[r] # "idle" /\ cfg'.wpc[r] = "idle")
             => /\ cfg.wpc[r] = "dumping"
                /\ cfg.writer
                /\ cfg'.lastDump = "ok" => cfg'.file \in Marshalled(r)]_vars

C21_Witness ==
    /\ Quiescent
    /\ cfg.lastDump = "ok"
    /\ cfg.captured # NoCapture
    /\ cfg.rotatedAway
    /\ cfg.file = nodeKey

\* handler h's read of Config.Key ends in this step
ReadEnds(h) == cfg.hpc[h] = "reading" /\ cfg'.hpc[h] = "read"

\* C22 as stated: a handshake valid under key k is accepted every time it
\* is presented while the node's key is k, and is rejected on every
\* connection whose validation reads the key after a rotation SetKey(k')
\* with k' # k has completed.  (Violated: after a further rotation back to
\* k the handshake is accepted again.)
C22_Original ==
    [][\A h \in Handlers :
         (ReadEnds(h) /\ cfg.captured # NoCapture)
         => /\ (~cfg.raced[h] /\ nodeKey = cfg.capturedKey)
               => ReplayVerdict(cfg'.got[h]) = "accept"
            /\ cfg.rotatedAway => ReplayVerdict(cfg'.got[h]) = "reject"]_vars

\* C22: replay window. A handshake valid under key k is accepted exactly
\* when the key its validation reads is k. A read that overlaps no
\* assignment of SetKey returns the key in memory, so the handshake is
\* accepted while memory holds k, and rejected while memory holds another
\* key after a rotation away from k has completed.
C22_ReplayWindow ==
    [][\A h \in Handlers :
         (ReadEnds(h) /\ cfg.captured # NoCapture)
         => /\ ReplayVerdict(cfg'.got[h]) = "accept"
                 <=> cfg'.got[h] = cfg.capturedKey
            /\ ~cfg.raced[h] => cfg'.got[h] = nodeKey
            /\ (~cfg.raced[h] /\ nodeKey = cfg.capturedKey)
               => ReplayVerdict(cfg'.got[h]) = "accept"
            /\ (~cfg.raced[h] /\ cfg.rotatedAway /\ nodeKey # cfg.capturedKey)
               => ReplayVerdict(cfg'.got[h]) = "reject"]_vars

C22_Witness ==
    \E h \in Handlers :
        /\ cfg.hpc[h] = "read"
        /\ cfg.captured # NoCapture
        /\ cfg.rotatedAway
        /\ Quiescent
        /\ cfg.got[h] \in SharedSecrets
        /\ ReplayVerdict(cfg.got[h]) = "reject"

(***************************************************************************)
(* Login (SpecLogin).                                                      *)
(***************************************************************************)
\* bcrypt: a hash matches the password it was made from and no other
BcryptHash(pw) == <<"bcrypt", pw>>

CompareHashAndPassword(hash, pw) == hash = BcryptHash(pw)

\* the credentials the catalog holds, by email
Credentials ==
    [e \in {"a@x", "d@x"} |->
       IF e = "a@x"
       THEN [ID |-> "u1", Email |-> e, Password |-> BcryptHash("pw1"),
             Role |-> "USER", Deleted |-> FALSE]
       ELSE [ID |-> "u2", Email |-> e, Password |-> BcryptHash("pw2"),
             Role |-> "ADMIN", Deleted |-> TRUE]]

\* Querier.GetJwtInfoByEmail; dbOK: whether the query itself goes through
GetJwtInfoByEmail(email, dbOK) ==
    IF dbOK /\ email \in DOMAIN Credentials
    THEN [err |-> "nil", info |-> Credentials[email]]
    ELSE [err |-> "queryFailed",
          info |-> [ID |-> "", Email |-> "", Password |-> <<>>, Role |-> "",
                    Deleted |-> FALSE]]

\* mutant: the Deleted flag is not looked at
AuthUser_IgnoreDeleted(email, passwd, dbOK, duration, t) ==
    LET q == GetJwtInfoByEmail(email, dbOK) IN
    IF q.err # "nil"
    THEN [token |-> NoToken, err |-> "ErrUserAuthFailed"]
    ELSE IF ~CompareHashAndPassword(q.info.Password, passwd)
    THEN [token |-> NoToken, err |-> "ErrUserAuthFailed"]
    ELSE [token |-> EncodeUserToken(
                      [UserID |-> UUIDToString(q.info.ID), Email |-> q.info.Email,
                       ExpiryDate |-> Unix(t + duration), IssuedAt |-> Unix(t),
                       Role |-> q.info.Role]),
          err |-> "nil"]

\* AuthService.AuthUser, UserTokenDuration being duration and time.Now() t
AuthUser(email, passwd, dbOK, duration, t) ==
    LET q == GetJwtInfoByEmail(email, dbOK) IN
    IF q.err # "nil" \/ q.info.Deleted
    THEN [token |-> NoToken, err |-> "ErrUserAuthFailed"]
    ELSE IF ~CompareHashAndPassword(q.info.Password, passwd)
    THEN [token |-> NoToken, err |-> "ErrUserAuthFailed"]
    ELSE [token |-> EncodeUserToken(
                      [UserID |-> UUIDToString(q.info.ID), Email |-> q.info.Email,
                       ExpiryDate |-> Unix(t + duration), IssuedAt |-> Unix(t),
                       Role |-> q.info.Role]),
          err |-> "nil"]

\* one login is observed per instant
Login ==
    \E email \in {"a@x", "d@x", "nobody@x"}, passwd \in {"pw1", "pw2", "guess"},
       dbOK \in BOOLEAN,
       ttl \in 0..MaxTTL :
        /\ last = NoOp
        /\ last' = [op |-> "login", email |-> email, passwd |-> passwd,
                    dbOK |-> dbOK, res |-> AuthUser(email, passwd, dbOK, ttl, now)]
        /\ UNCHANGED <<now, minted, expiredSeen, nodeVars>>

NextLogin == Tick \/ Login

SpecLogin == Init /\ [][NextLogin]_vars

\* the plaintext passwords of the users that can log in
PasswordOf == [e \in {"a@x", "d@x"} |-> IF e = "a@x" THEN "pw1" ELSE "pw2"]

(***************************************************************************)
(* The node's HTTP file endpoint (SpecNodeHttp).                           *)
(***************************************************************************)
\* the rnd query argument: absent, or its bytes
HttpRnds ==
    {[present |-> FALSE, val |-> <<>>]} \cup { [present |-> TRUE, val |-> r] : r \in Randoms \cup {<<"a", "a">>} }

\* the requests: Authorization header values are split at spaces as in
\* the proxy's requests
NodeHttpRequests ==
    [id : NodeIdStrings \ {""},
     rnd : HttpRnds,
     auth :
        {[present |-> FALSE, n |-> 0, SigningType |-> "", Token |-> <<>>]}
        \cup { [present |-> TRUE, n |-> n, SigningType |-> "Signature",
                Token |-> <<>>] : n \in {1, 3} }
        \cup [present : {TRUE}, n : {2}, SigningType : {"Signature", "Bearer"},
              Token : WireTokens
                      \cup { generateSignature(r.val, k) :
                               r \in HttpRnds, k \in SharedSecrets }]]

\* the node's Server.ExtractAuthorizationHeader
NodeExtractAuthorizationHeader(h) ==
    IF ~h.present THEN [err |-> "nil", hdr |-> NilAuthHeader]
    ELSE IF h.n # 2 THEN [err |-> "ErrInvalidAuthHeader", hdr |-> NilAuthHeader]
    ELSE [err |-> "nil",
          hdr |-> [SigningType |-> h.SigningType, Token |-> h.Token]]

\* Server.ExtractSignatureAuthorization over the payload p, key being
\* config.GetConfig().GetKey(); SigningType is not looked at
ExtractSignatureAuthorization(h, p, key) ==
    LET a == NodeExtractAuthorizationHeader(h) IN
    IF a.err # "nil" THEN a.err
    ELSE IF a.hdr = NilAuthHeader THEN "ErrRouteRequiresAuth"
    ELSE IF HexSha256(p \o key) # a.hdr.Token THEN "ErrInvalidSignature"
    ELSE "nil"

\* the node's Server.HandleError: a JSON error body with the error's status
NodeHandleError(err) ==
    [status |-> GetStatusErr(err).httpCode, body |-> "json", err |-> err,
     opened |-> FALSE, data |-> <<>>]

\* c.SetStatusCode(500) with nothing written to the body
BareStatus500(opened) ==
    [status |-> 500, body |-> "empty", err |-> "", opened |-> opened, data |-> <<>>]

\* Server.HandleProxiedGetFile.  io: how os.Open and file.Stat go for a file
\* that is in the data directory
HandleProxiedGetFile(req, key, files, io) ==
    IF ~req.rnd.present THEN NodeHandleError("ErrRndQueryNotProvided")
    ELSE IF Len(req.rnd.val) < 2 THEN NodeHandleError("ErrRndQueryNotProvided")
    ELSE LET err == ExtractSignatureAuthorization(req.auth, req.rnd.val, key) IN
    IF err # "nil" THEN NodeHandleError(err)
    ELSE IF ~(req.id \in DOMAIN files /\ files[req.id].exists /\ io # "openFails")
    THEN BareStatus500(TRUE)
    ELSE IF io = "statFails" THEN BareStatus500(TRUE)
    ELSE [status |-> 200, body |-> "stream", err |-> "", opened |-> TRUE,
          data |-> files[req.id].data]

\* one request to GET /file/:id is answered
ProxiedGetFile ==
    \E req \in NodeHttpRequests, io \in {"ok", "openFails", "statFails"} :
        /\ conn.pc = "Idle"
        /\ last = NoOp
        /\ last' = [op |-> "nodeHttp", req |-> req, key |-> nodeKey, io |-> io,
                    resp |-> HandleProxiedGetFile(req, nodeKey, disk, io)]
        /\ UNCHANGED <<now, minted, expiredSeen, nodeVars>>

NextNodeHttp == LoadConfig \/ ProxiedGetFile

SpecNodeHttp == Init /\ [][NextNodeHttp]_vars

(***************************************************************************)
(* Tokens that carry the service's signature but not every claim           *)
(* (SpecClaims).                                                           *)
(***************************************************************************)
\* the JSON object obj without its member k
WithoutMember(obj, k) == [m \in DOMAIN obj \ {k} |-> obj[m]]

\* a holder of the signing key signs a payload from which one claim is
\* left out (or none), and the token is decoded
DecodeIncomplete ==
    \E decoder \in {"file", "user"}, ttl \in 0..MaxTTL, r \in ClockReadings,
       missing \in {"none", "sub", "iat", "exp", "email", "role", "perm"} :
        LET full == IF decoder = "file"
                    THEN MarshalFileAccess(
                           [FileID |-> "f1", ExpiryDate |-> Unix(now + ttl),
                            IssuedAt |-> Unix(now), Permission |-> FileAccessPermRead])
                    ELSE MarshalUser(
                           [UserID |-> "u1", Email |-> "a@x",
                            ExpiryDate |-> Unix(now + ttl),
                            IssuedAt |-> Unix(now), Role |-> "USER"])
            tok == IF decoder = "file"
                   THEN SignedString("HS256", WithoutMember(full, missing), JwtHmacKey)
                   ELSE SignedString("EdDSA", WithoutMember(full, missing),
                                     JwtEdDSAPrivKey)
            res == IF decoder = "file"
                   THEN DecodeFileAccessToken(tok, r[1], r[2], r[3])
                   ELSE DecodeUserToken(tok, r[1], r[2], r[3])
        IN /\ last = NoOp
           /\ missing \in DOMAIN full \cup {"none"}
           /\ last' = [op |-> "decodeIncomplete", decoder |-> decoder,
                       missing |-> missing, tok |-> tok, res |-> res]
           /\ now' = r[3]
           /\ UNCHANGED <<minted, expiredSeen, nodeVars>>

NextClaims == Tick \/ DecodeIncomplete

SpecClaims == Init /\ [][NextClaims]_vars

(***************************************************************************)
(* The requests the proxy sends to nodes (SpecOutbound).                   *)
(***************************************************************************)
MaxRequests == 3

HexDigits ==
    <<"0", "1", "2", "3", "4", "5", "6", "7", "8", "9", "a", "b", "c", "d", "e", "f">>

\* hex.Encode: two lower-case digits for each byte
HexEncode(b) ==
    [i \in 1..(2 * Len(b)) |->
        IF i % 2 = 1 THEN HexDigits[(b[(i + 1) \div 2] \div 16) + 1]
        ELSE HexDigits[(b[i \div 2] % 16) + 1]]

\* mutant: the buffer is encoded without having been filled
randomString_Unfilled(l, n) == HexEncode([i \in 1..l |-> 0])

\* randomString(l) at the n-th read of the generator; crypto/rand.Read of
\* l bytes is taken as an ideal generator: the n-th read returns bytes that
\* no other read returns
randomString(l, n) ==
    HexEncode([i \in 1..l |-> IF i = l THEN n % 256 ELSE (n \div 256) % 256])

\* the requests built so far, in order
Sent == IF last.op = "outbound" THEN last.sent ELSE <<>>

\* handleGetFileTCP / handleGetFileHttp for a file of the catalog, up to
\* the dial or client.Do and its outcome; rngOK: whether rand.Read succeeds
SendNodeRequest ==
    \E id \in DOMAIN Catalog, outcome \in TCPOutcomes \cup HTTPOutcomes,
       rngOK \in BOOLEAN :
        LET info == Catalog[id]
            tcp == SelectTransport(info) = "tcp"
            rnd == randomString(24, Len(Sent))
            q == IF ~rngOK
                 THEN [transport |-> "none", fileId |-> id, outcome |-> "randFail"]
                 ELSE IF tcp
                 THEN [transport |-> "tcp", fileId |-> id, outcome |-> outcome,
                       key |-> proxyKey, handshake |-> ProxyHandshake(info.ID, rnd)]
                 ELSE [transport |-> "http", fileId |-> id, outcome |-> outcome,
                       key |-> proxyKey,
                       request |->
                           [id |-> UUIDToString(info.ID), rnd |-> rnd,
                            auth |-> [present |-> TRUE, n |-> 2,
                                      SigningType |-> "Signature",
                                      Token |-> generateSignature(rnd, proxyKey)]]]
        IN /\ conn.pc = "Idle"
           /\ Len(Sent) < MaxRequests
           /\ outcome \in IF tcp THEN TCPOutcomes ELSE HTTPOutcomes
           /\ rngOK \/ outcome = "ok"
           /\ last' = [op |-> "outbound", sent |-> Append(Sent, q)]
           /\ UNCHANGED <<now, minted, expiredSeen, nodeVars>>

NextOutbound == LoadConfig \/ SendNodeRequest

SpecOutbound == Init /\ [][NextOutbound]_vars

(***************************************************************************)
(* The pooled response behind the body of an HTTP-path answer              *)
(* (SpecHttpBody).  Two requests are in flight; last holds where each      *)
(* stands, the response object each acquired, the request holding each     *)
(* object (between AcquireResponse and ReleaseResponse), the bytes in each *)
(* object's body buffer, and the bytes each caller has been sent.          *)
(***************************************************************************)
InFlight == {"q1", "q2"}
ResponseObjects == {"o1", "o2"}

\* the body the node answers each of the two requests with
NodeBody == [q1 |-> <<1, 2>>, q2 |-> <<3, 4>>]

Pool ==
    IF last.op = "pool" THEN last
    ELSE [op |-> "pool",
          pc |-> [q \in InFlight |-> "idle"],
          res |-> [q \in InFlight |-> "none"],
          holder |-> [o \in ResponseObjects |-> "none"],
          body |-> [o \in ResponseObjects |-> <<>>],
          got |-> [q \in InFlight |-> <<>>]]

\* fasthttp.AcquireResponse: an object nobody holds, new or from the pool,
\* reset
AcquireResponse(q) ==
    \E o \in ResponseObjects :
        /\ Pool.pc[q] = "idle"
        /\ Pool.holder[o] = "none"
        /\ last' = [Pool EXCEPT !.pc[q] = "acquired", !.res[q] = o,
                                !.holder[o] = q]
        /\ UNCHANGED <<now, minted, expiredSeen, nodeVars>>

\* s.client.Do with a 200 answer: the body is read into the object
ClientDo(q) ==
    /\ Pool.pc[q] = "acquired"
    /\ last' = [Pool EXCEPT !.pc[q] = "fetched", !.body[Pool.res[q]] = NodeBody[q]]
    /\ UNCHANGED <<now, minted, expiredSeen, nodeVars>>

\* handleGetFileHttp returns a reader over the object's body and the
\* deferred ReleaseResponse puts the object back into the pool
ReturnReader(q) ==
    /\ Pool.pc[q] = "fetched"
    /\ last' = [Pool EXCEPT !.pc[q] = "returned", !.holder[Pool.res[q]] = "none"]
    /\ UNCHANGED <<now, minted, expiredSeen, nodeVars>>

\* SetBodyStream(reader, -1): after HandleGetFile has returned the server
\* copies the reader to the caller, here byte by byte from what the
\* object's buffer holds at that moment; at the end the reader is dropped
StreamBody(q) ==
    LET o == Pool.res[q]
        n == Len(Pool.got[q])
    IN /\ Pool.pc[q] = "returned"
       /\ IF n < Len(Pool.body[o])
          THEN last' = [Pool EXCEPT !.got[q] = Append(@, Pool.body[o][n + 1])]
          ELSE last' = [Pool EXCEPT !.pc[q] = "streamed",
                                    !.holder[o] = IF @ = q THEN "none" ELSE @]
       /\ UNCHANGED <<now, minted, expiredSeen, nodeVars>>

NextHttpBody ==
    \E q \in InFlight :
        AcquireResponse(q) \/ ClientDo(q) \/ ReturnReader(q) \/ StreamBody(q)

SpecHttpBody == Init /\ [][NextHttpBody]_vars

(***************************************************************************)
(* The connection registry of the shared TcpServer (SpecRegistry).  Three  *)
(* accepted connections each run connHandler in a goroutine of their own   *)
(* while one caller runs GetConns.  last holds the map conns as a set of   *)
(* <<id, connection>> pairs, connCtr, where each connHandler stands and    *)
(* the id it was given, and where GetConns stands: the length it           *)
(* allocated, what it returned, and whether it panicked.  addConn,         *)
(* removeConn and the loop of GetConns run under ConnsM, so each is one    *)
(* step; the make of GetConns comes before the Lock and is a step of its   *)
(* own.                                                                    *)
(***************************************************************************)
Accepted3 == {"c1", "c2", "c3"}

Registry ==
    IF last.op = "registry" THEN last
    ELSE [op |-> "registry",
          conns |-> {},
          connCtr |-> 0,
          hpc |-> [c \in Accepted3 |-> "accepted"],
          hid |-> [c \in Accepted3 |-> 0],
          gpc |-> "idle",
          allocated |-> 0,
          returned |-> [conns |-> {}, nils |-> 0],
          panicked |-> FALSE]

\* connHandler's first statement: addConn increments connCtr and stores
\* the connection under the new value
addConn(c) ==
    LET i == Registry.connCtr + 1 IN
    /\ Registry.hpc[c] = "accepted"
    /\ last' = [Registry EXCEPT !.connCtr = i,
                                !.conns = @ \cup {<<i, c>>},
                                !.hid[c] = i,
                                !.hpc[c] = "handling"]
    /\ UNCHANGED <<now, minted, expiredSeen, nodeVars>>

\* s.handler(conn) returns
HandlerReturns(c) ==
    /\ Registry.hpc[c] = "handling"
    /\ last' = [Registry EXCEPT !.hpc[c] = "returned"]
    /\ UNCHANGED <<now, minted, expiredSeen, nodeVars>>

\* the deferred removeConn(i): delete(s.conns, id)
removeConn(c) ==
    /\ Registry.hpc[c] = "returned"
    /\ last' = [Registry EXCEPT
                    !.conns = {p \in @ : p[1] # Registry.hid[c]},
                    !.hpc[c] = "removed"]
    /\ UNCHANGED <<now, minted, expiredSeen, nodeVars>>

\* GetConns, before the Lock: make([]net.Conn, len(s.conns))
GetConnsMake ==
    /\ Registry.gpc = "idle"
    /\ last' = [Registry EXCEPT !.gpc = "made",
                                !.allocated = Cardinality(Registry.conns)]
    /\ UNCHANGED <<now, minted, expiredSeen, nodeVars>>

\* GetConns, under the Lock: the loop stores the i-th connection of the
\* map at conns[i]; an index that is not below the allocated length
\* panics, and entries the loop does not reach stay nil
GetConnsCopy ==
    /\ Registry.gpc = "made"
    /\ IF Cardinality(Registry.conns) > Registry.allocated
       THEN last' = [Registry EXCEPT !.gpc = "done", !.panicked = TRUE]
       ELSE last' = [Registry EXCEPT
                        !.gpc = "done",
                        !.returned =
                            [conns |-> {p[2] : p \in Registry.conns},
                             nils |-> Registry.allocated
                                      - Cardinality(Registry.conns)]]
    /\ UNCHANGED <<now, minted, expiredSeen, nodeVars>>

NextRegistry ==
    \/ \E c \in Accepted3 : addConn(c) \/ HandlerReturns(c) \/ removeConn(c)
    \/ GetConnsMake
    \/ GetConnsCopy

SpecRegistry == Init /\ [][NextRegistry]_vars

\* C23: login failures are indistinguishable. AuthUser returns the single
\* error ErrUserAuthFailed and no token when the email is unknown, when
\* the lookup fails, when the user is deleted and when the password does
\* not match; it mints a user token only when the lookup succeeded, the
\* user is not deleted and the password matched.
C23_UniformLoginFailure ==
    last.op = "login"
    => LET entitled == /\ last.dbOK
                       /\ last.email = "a@x"
                       /\ last.passwd = PasswordOf[last.email]
       IN /\ entitled
             => /\ last.res.err = "nil"
                /\ last.res.token # NoToken
                /\ Verify("Ed25519", JwtEdDSAPubKey, last.res.token)
                /\ UnmarshalUser(last.res.token.claims).UserID = UUIDToString("u1")
                /\ UnmarshalUser(last.res.token.claims).Email = "a@x"
          /\ ~entitled
             => last.res = [token |-> NoToken, err |-> "ErrUserAuthFailed"]

C23_Witness ==
    /\ last.op = "login"
    /\ last.email = "d@x"
    /\ last.passwd = "pw2"
    /\ last.dbOK
    /\ last.res.err = "ErrUserAuthFailed"


\* C24: the node's HTTP endpoint gets to the file open only for a request
\* with an Authorization header whose scheme is "Signature" and whose
\* value is hex(sha256(rnd || key)) for the rnd of the same request.
C24_SignatureSchemeRequired ==
    (last.op = "nodeHttp" /\ last.resp.opened)
    => /\ last.req.auth.present
       /\ last.req.auth.n = 2
       /\ last.req.auth.SigningType = "Signature"
       /\ last.req.rnd.present
       /\ last.req.auth.Token = HexSha256(last.req.rnd.val \o last.key)

\* C25: an unsuccessful request to the node's HTTP endpoint gets a JSON
\* error body and a status among 400/401/404/500: 400 without rnd, 401
\* without a matching signature, 404 when correctly signed for a file that
\* is not in storage.
C25_StructuredErrors ==
    (last.op = "nodeHttp" /\ last.resp.status # 200)
    => LET req == last.req
           signed == /\ req.auth.present /\ req.auth.n = 2
                     /\ req.auth.Token = HexSha256(req.rnd.val \o last.key)
       IN /\ last.resp.body = "json"
          /\ last.resp.status \in {400, 401, 404, 500}
          /\ ~req.rnd.present => last.resp.status = 400
          /\ (req.rnd.present /\ Len(req.rnd.val) >= 2 /\ ~signed)
             => last.resp.status = 401
          /\ (req.rnd.present /\ Len(req.rnd.val) >= 2 /\ signed
              /\ ~disk[req.id].exists)
             => last.resp.status = 404

\* a TCP Read handshake with the request's id, nonce and signature is
\* accepted by validateIden and HandleRead opens the file
TcpReadServed(req, key) ==
    /\ validateIden([ID |-> req.id, Random |-> req.rnd.val,
                     Token |-> req.auth.Token, Type |-> RequestTypeRead], key) = "nil"
    /\ req.id \in DOMAIN disk
    /\ disk[req.id].exists

\* C26: for the same id, nonce, signature and key the HTTP endpoint serves
\* the file exactly when a TCP Read handshake with those values is
\* accepted and served.
C26_ReadPathEquivalence ==
    (/\ last.op = "nodeHttp" /\ last.io = "ok"
     /\ last.req.rnd.present
     /\ last.req.auth.present /\ last.req.auth.n = 2
     /\ last.req.auth.SigningType = "Signature")
    => (last.resp.status = 200 <=> TcpReadServed(last.req, last.key))


\* C27: whatever makes the catalog lookup of get_file fail, the caller gets
\* the same "file not found" error, no node is contacted and no file
\* metadata header is set.
C27_LookupFailureUniform ==
    (IsGetFile /\ last.lookup \in {"queryError", "ErrNoRows"})
    => /\ last.resp.err = "ErrFileNotFound"
       /\ last.resp.httpCode = 404
       /\ last.resp.code = 4042
       /\ last.resp.body = "json"
       /\ ~NodeContacted
       /\ ~last.resp.headers

C27_Witness ==
    /\ IsGetFile
    /\ last.lookup = "queryError"
    /\ last.req.fileId = "f1"
    /\ last.resp.err = "ErrFileNotFound"


\* C28: a correctly signed token from which a required claim is missing
\* (sub, iat, exp, email or role of a user token, perm of a file token) is
\* answered with ErrInvalidJwtToken by its decoder, and is never accepted
\* with the field at its zero value.
C28_MissingClaimRejected ==
    (last.op = "decodeIncomplete" /\ last.missing # "none")
    => /\ last.res.err = "ErrInvalidJwtToken"
       /\ last.res.claims = NilPayload


\* the checks of get_file in the order the claim gives them
CheckOrder == <<"auth", "parseId", "lookup", "ownerCheck">>

AuthErrors ==
    {"ErrRouteRequiresAuth", "ErrInvalidAuthHeader", "ErrInvalidJwtToken",
     "ErrExpiredJwtToken", "ErrFileAccessDenied"}

MalformedId == last.req.fileId \notin DOMAIN UUIDSpellings

\* C29: get_file authenticates, parses the id, looks the file up, checks
\* the owner and only then chooses a transport, and it stops at the first
\* check that fails: an unauthenticated request with a malformed id gets
\* the authentication error, an authenticated one the bad-id error without
\* a lookup, and a node is contacted only after all four checks passed.
C29_CheckOrder ==
    IsGetFile
    => LET ev == last.resp.events IN
       /\ \A i \in 1..Len(ev) : i <= 4 => ev[i] = CheckOrder[i]
       /\ ~Authenticated
          => /\ ev = <<"auth">>
             /\ last.resp.err \in AuthErrors
       /\ (Authenticated /\ MalformedId)
          => /\ ev = <<"auth", "parseId">>
             /\ last.resp.err = "ErrInvalidUUID"
             /\ ~LookedUp
       /\ (Authenticated /\ ~MalformedId /\ last.lookup # "nil")
          => ev = <<"auth", "parseId", "lookup">>
       /\ NodeContacted
          => /\ Authenticated
             /\ ~MalformedId
             /\ last.lookup = "nil"
             /\ Len(ev) > 4
             /\ ~OwnerCheckFails(last.resp.auth, RequestedInfo)

C29_Witness ==
    /\ IsGetFile
    /\ Authenticated
    /\ MalformedId
    /\ last.resp.err = "ErrInvalidUUID"


\* the nonce and the signature a built request carries
NonceOf(q) ==
    IF q.transport = "tcp" THEN DecodeIdenPayload(q.handshake).iden.Random
    ELSE q.request.rnd

SignatureOf(q) ==
    IF q.transport = "tcp" THEN DecodeIdenPayload(q.handshake).iden.Token
    ELSE q.request.auth.Token

Built == { i \in DOMAIN Sent : Sent[i].transport # "none" }

\* C30: every request to a node carries a nonce made for that request
\* alone, 24 random bytes as 48 hex characters, and the signature of
\* exactly that nonce under the proxy's key: the TCP handshake's token
\* signs its random, its type is Read and its id is the requested file's;
\* the HTTP Authorization header signs the rnd of the same URL; no nonce
\* and no signature is used by two requests.
C30_FreshSignedNonce ==
    /\ \A i \in Built :
          LET q == Sent[i] IN
          /\ Len(NonceOf(q)) = 48
          /\ \A j \in 1..48 : \E h \in DOMAIN HexDigits : NonceOf(q)[j] = HexDigits[h]
          /\ SignatureOf(q) = HexSha256(NonceOf(q) \o proxyKey)
          /\ q.transport = "tcp"
             => /\ DecodeIdenPayload(q.handshake).err = "nil"
                /\ DecodeIdenPayload(q.handshake).iden.Type = RequestTypeRead
                /\ DecodeIdenPayload(q.handshake).iden.ID = q.fileId
          /\ q.transport = "http"
             => /\ q.request.id = q.fileId
                /\ q.request.auth.SigningType = "Signature"
                /\ q.request.auth.n = 2
    /\ \A i, j \in Built :
          i # j => /\ NonceOf(Sent[i]) # NonceOf(Sent[j])
                   /\ SignatureOf(Sent[i]) # SignatureOf(Sent[j])

C30_Witness ==
    /\ Len(Sent) >= 2
    /\ Sent[1].transport = "tcp"
    /\ Sent[2].transport = "http"
    /\ Sent[1].fileId # Sent[2].fileId


\* the position of the event e in the request's steps (0 when absent)
EventIndex(e) ==
    IF Has(last.resp.events, e)
    THEN CHOOSE i \in DOMAIN last.resp.events : last.resp.events[i] = e
    ELSE 0

\* one of the five steps of get_file failed
GetFileFailed ==
    \/ ~Authenticated
    \/ MalformedId
    \/ last.lookup # "nil"
    \/ OwnerCheckFails(last.resp.auth, RequestedInfo)
    \/ Has(last.resp.events, "attemptFailed")
    \/ Has(last.resp.events, "non200")

\* C31: get_file sets the File-Checksum, Content-Type and
\* Content-Disposition headers from the catalog record before any body
\* byte is streamed, and only on the success path: when authentication,
\* id parsing, the lookup, the owner check or the node fetch fails, none of
\* them is set.
C31_HeadersOnlyOnSuccess ==
    IsGetFile
    => /\ Has(last.resp.events, "stream")
          => /\ last.resp.headers
             /\ 0 < EventIndex("headers")
             /\ EventIndex("headers") < EventIndex("stream")
             /\ last.resp.file = RequestedInfo.ID
       /\ GetFileFailed => ~last.resp.headers


\* the one read of the handshake has returned an error or a strict prefix
ShortRead ==
    /\ conn.pc \notin {"Down", "Idle", "Accepted", "AwaitingHandshake"}
    /\ conn.partial \/ conn.reason = "read"

MachineSteps ==
    {<<"Down", "Idle">>, <<"Idle", "Accepted">>, <<"Closed", "Accepted">>,
     <<"Accepted", "AwaitingHandshake">>,
     <<"AwaitingHandshake", "Authenticated">>, <<"AwaitingHandshake", "Rejected">>,
     <<"Authenticated", "Streaming">>, <<"Streaming", "Streaming">>,
     <<"Streaming", "Closed">>, <<"Rejected", "Closed">>}

NoTransferStep == <<"Authenticated", "Closed">>

WriteFailed ==
    /\ conn.pc = "Closed"
    /\ conn.mode = "write"
    /\ \/ conn.pos < conn.want
       \/ Has(conn.fileOps, "remove")

\* C34: a failed or aborted Write for an id that holds a complete file
\* does not destroy it: afterwards the file still holds its earlier bytes.
C34_FailedWriteKeepsContent ==
    (WriteFailed /\ conn.prior # NoUpload)
    => /\ disk[conn.iden.ID].exists
       /\ disk[conn.iden.ID].data = conn.prior


\* the permission p includes the Read bit
IncludesRead(p) == (p \div FileAccessPermRead) % 2 = 1

\* C35: a get_file request authenticated with a file-access token is
\* served only if the token's permission includes the Read bit; a token
\* granting Write only never has file bytes streamed.
C35_ReadBitRequired ==
    (/\ IsGetFile
     /\ Authenticated
     /\ last.resp.auth.IsSignedToken
     /\ NodeContacted \/ Has(last.resp.events, "stream"))
    => IncludesRead(last.resp.auth.TokenPerm)


\* C36: on the HTTP path the reader handleGetFileHttp returns stays valid
\* and owned by its request until the body has been streamed: the pooled
\* response behind it is not released, and so not reused by another
\* request, before streaming ends, and the caller gets the node's body.
C36_ReaderOwnsResponse ==
    \A q \in InFlight :
        /\ Pool.pc[q] = "returned" => Pool.holder[Pool.res[q]] = q
        /\ Pool.pc[q] = "streamed" => Pool.got[q] = NodeBody[q]


\* the file handles a connection's handler has opened and not closed
OpenHandles ==
    Len(SelectSeq(conn.fileOps, LAMBDA o : o \in {"open", "create"}))
    - Len(SelectSeq(conn.fileOps, LAMBDA o : o = "close"))

\* C37: every file handle opened by HandleRead or HandleWrite is closed
\* by the time the connection handler returns, on success and on every
\* error path: a closed connection has no open file handle left.
C37_HandlesClosed == conn.pc = "Closed" => OpenHandles = 0


\* C38: every connection dialed by handleGetFileTCP is handed to the
\* response as its body stream or closed before the function returns; when
\* writing the handshake fails after a successful dial, the dialed
\* connection is closed.
C38_DialedConnReleased ==
    (IsGetFile /\ Has(last.resp.events, "writeHandshake"))
    => \/ last.resp.body = "conn"
       \/ Has(last.resp.events, "closeConn")


\* ids handed out by addConn are unique
UniqueIds ==
    \A c, e \in Accepted3 :
        (c # e /\ Registry.hid[c] # 0 /\ Registry.hid[e] # 0)
        => Registry.hid[c] # Registry.hid[e]

\* the registry holds exactly the connections whose connHandler is
\* between its addConn and its removeConn
RegistryExact ==
    Registry.conns =
        {<<Registry.hid[c], c>> :
            c \in {e \in Accepted3 : Registry.hpc[e] \in {"handling", "returned"}}}

\* GetConns does not index past the slice it allocated
NoIndexPastSlice == ~Registry.panicked

\* C39: under any interleaving of connection handlers, ids handed out by
\* addConn are unique, the registry holds exactly the connections whose
\* handler is running (added before the handler starts, removed after it
\* returns), and GetConns called concurrently with addConn and removeConn
\* returns a snapshot without indexing past the slice it allocated.
C39_RegistryConsistent == UniqueIds /\ RegistryExact /\ NoIndexPastSlice

====
